---- MODULE Spec2Model ----
(***************************************************************************)
(* Hoverfly: the simulation store (core/models/simulation.go), the         *)
(* Simulate lookup with its request cache, the request pipeline            *)
(* (hoverfly.go: GetResponse, Save, processRequest, DoRequest) and the     *)
(* proxy lifecycle (hoverfly.go: StartProxy, StopProxy).                   *)
(*                                                                         *)
(* A RequestMatcher is modelled by its field matchers (one opaque value    *)
(* per distinct set of field matchers) plus its RequiresState map.  Go     *)
(* maps are records [isNil, kv]: a nil map and an empty map are different  *)
(* values for reflect.DeepEqual.  State values are decimal strings, as in  *)
(* the code; Atoi and Itoa convert between them and integers.              *)
(***************************************************************************)
EXTENDS Integers, Sequences, FiniteSets, TLC

(* ---------------------------- bounds ----------------------------------- *)

\* largest number of pairs the store grows to while requests are served
MaxPairs == 3

\* largest number of pairs the store grows to when only the store is driven
MaxSequenced == 4

\* number of pairs in the store beyond which no further capture is started
MaxCaptured == 2

\* number of successful StartProxy calls that are followed
MaxStarts == 2

(* ---------------------------- input sets ------------------------------- *)

Requests == {"rA", "rB"}

Bodies == {"b1", "b2"}

\* go maps: map[string]string
NilMap == [isNil |-> TRUE, kv |-> {}]

EmptyMap == [isNil |-> FALSE, kv |-> {}]

UserMap == [isNil |-> FALSE, kv |-> {<<"basket", "full">>}]

\* v[len(v)] of a map read: the value, or "" when the key is absent
Get(map, key) ==
    IF \E e \in map.kv : e[1] = key
    THEN (CHOOSE e \in map.kv : e[1] = key)[2]
    ELSE ""

\* map[key] = value on a non-nil map
Put(map, key, value) ==
    [isNil |-> FALSE, kv |-> {e \in map.kv : e[1] # key} \cup {<<key, value>>}]

\* if m == nil { m = map[string]string{} }
NonNil(map) == IF map.isNil THEN EmptyMap ELSE map

(* ---------------------------- strconv ---------------------------------- *)

DecimalStrings == <<"1", "2", "3", "4", "5", "6", "7", "8", "9">>

\* strconv.Atoi with the error dropped: 0 for a string that is no number
Atoi(s) ==
    IF \E n \in DOMAIN DecimalStrings : DecimalStrings[n] = s
    THEN CHOOSE n \in DOMAIN DecimalStrings : DecimalStrings[n] = s
    ELSE 0

\* strconv.Itoa
Itoa(n) == IF n = 0 THEN "0" ELSE DecimalStrings[n]

(* ---------------------------- requests and matchers -------------------- *)

\* the exact-match field matchers Save builds from a request: path, method,
\* destination, scheme, query, body and headers of that request
ExactMatcherOf(req) == [kind |-> "exact", of |-> req]

FieldMatchers == {ExactMatcherOf(r) : r \in Requests}

\* reflect.DeepEqual on values of the model (a nil map differs from an empty one)
DeepEqual(a, b) == a = b

\* models.RequestMatcherResponsePair
Pair(fields, requires, body, transitions) ==
    [RequestMatcher |-> [Fields |-> fields, RequiresState |-> requires],
     Response |-> [Status |-> 200, Body |-> body, TransitionsState |-> transitions,
                   Headers |-> {}]]

\* the pairs a caller (import, capture) hands to the store: without required
\* state and either body, or with the user's required state
InputPairs ==
    {Pair(f, NilMap, b, NilMap) : f \in FieldMatchers, b \in Bodies}
        \cup {Pair(f, UserMap, "b1", NilMap) : f \in FieldMatchers}

\* the pairs an import brings from another recording: no required state and
\* the body the upstream here does not give to the first request
ImportedPairs == {Pair(f, NilMap, "b2", NilMap) : f \in FieldMatchers}

\* the upstream responses Capture records
UpstreamResponses ==
    {[Status |-> 200, Body |-> b, TransitionsState |-> NilMap, Headers |-> {}] :
        b \in Bodies}

(* ---------------------------- state ------------------------------------ *)

VARIABLES
    matchingPairs,   \* Simulation.matchingPairs
    state,           \* state.State: the simulation's state map
    RequestCache,    \* Hoverfly.RequestCache, keyed by request fingerprint
    mode,            \* Cfg.Mode
    middleware,      \* Cfg.Middleware.IsSet()
    last,            \* history: the operation that produced this state
    pc,              \* per request goroutine: position in processRequest
    req,             \* per request goroutine: requestDetails
    lmode,           \* per request goroutine: local variable mode
    handler,         \* per request goroutine: the mode handler that ran
    result,          \* per request goroutine: response and error of Process
    snapshot,        \* per request goroutine: slice header read by append
    delayed,         \* per request goroutine: a delay rule was executed
    saved,           \* history: requests whose Save has returned
    captured,        \* per request goroutine: pair.Request as handed to Save
    trace,           \* history, per request goroutine: what the request did so far
    ProxyPort,       \* Cfg.ProxyPort
    Proxy,           \* Hoverfly.Proxy
    SL,              \* Hoverfly.SL, the registered stoppable listener
    portHolder,      \* who holds the TCP port ProxyPort names
    server,          \* the goroutine StartProxy spawns around server.Serve
    ProxyControlWG,  \* Cfg.ProxyControlWG, the wait-group counter
    stopPc,          \* position of the caller inside StopProxy
    lastProxy,       \* history: the last StartProxy or StopProxy that returned
    starts,          \* history: number of StartProxy calls that succeeded
    call,            \* history: the last call of a function outside the pipeline
    heap,            \* the maps the program has made, by address
    refPairs,        \* Simulation.matchingPairs with the addresses of its maps
    args,            \* the pair objects of the caller, with the addresses of their maps
    Enabled,         \* AuthHandler.Enabled
    blacklist,       \* the tokens the authentication backend holds as invalidated
    bucket,          \* BoltAuth: the token bucket, a set of <<key, value>>
    del,             \* position of the caller inside BoltAuth.Delete
    pidFile,         \* hoverctl: the file hoverfly.pid
    running,         \* hoverctl: the ids of the Hoverfly processes that run
    nextPid          \* hoverctl: the id the next spawned process gets

storeVars == <<matchingPairs, state, RequestCache>>

cfgVars == <<mode, middleware>>

procVars == <<pc, req, lmode, handler, result, snapshot, delayed, saved, captured, trace>>

proxyVars == <<ProxyPort, Proxy, SL, portHolder, server, ProxyControlWG, stopPc,
               lastProxy, starts>>

vars == <<matchingPairs, state, RequestCache, mode, middleware, last, pc, req, lmode,
          handler, result, snapshot, delayed, saved, captured, trace, ProxyPort,
          Proxy, SL, portHolder, server, ProxyControlWG, stopPc, lastProxy, starts,
          call, heap, refPairs, args, Enabled, blacklist, bucket, del, pidFile,
          running, nextPid>>

aliasVars == <<heap, refPairs, args>>

authVars == <<Enabled, blacklist>>

boltVars == <<bucket, del>>

pidVars == <<pidFile, running, nextPid>>

\* the state outside Hoverfly's proxy
extVars == <<aliasVars, authVars, boltVars, pidVars>>

(* ---------------------------- Simulation ------------------------------- *)

\* variant of IsDuplicate: the whole pair is compared, response included
IsDuplicateWholePair(pairs, pair) ==
    \E i \in 1..Len(pairs) : DeepEqual(pair, pairs[i])

\* the loop of AddPair: some saved pair has a deeply equal RequestMatcher
IsDuplicate(pairs, pair) ==
    \E i \in 1..Len(pairs) : DeepEqual(pair.RequestMatcher, pairs[i].RequestMatcher)

\* Simulation.AddPair: the pair sequence after the call
AddPair(pairs, pair) ==
    IF IsDuplicate(pairs, pair) THEN pairs ELSE Append(pairs, pair)

\* AddPairInSequence, lines 46-52: equal once RequiresState is set to nil on both
DuplicateNoState(pair, savedPair) ==
    DeepEqual([pair.RequestMatcher EXCEPT !.RequiresState = NilMap],
              [savedPair.RequestMatcher EXCEPT !.RequiresState = NilMap])

\* AddPairInSequence, lines 68-78: the sequence value kept by a saved duplicate
SequenceState(savedPair) ==
    IF Get(savedPair.RequestMatcher.RequiresState, "sequence") = ""
    THEN "1"
    ELSE Get(savedPair.RequestMatcher.RequiresState, "sequence")

\* AddPairInSequence, lines 69-78: the sequence value the saved duplicate moves to
NextSequenceState(savedPair) ==
    IF Get(savedPair.RequestMatcher.RequiresState, "sequence") = ""
    THEN "2"
    ELSE Itoa(Atoi(Get(savedPair.RequestMatcher.RequiresState, "sequence")) + 1)

\* variant of UpdatedPair: the saved duplicate gets fresh maps that hold the
\* sequence entry alone
UpdatedPairFreshMaps(savedPair) ==
    [RequestMatcher |->
        [savedPair.RequestMatcher EXCEPT !.RequiresState =
            Put(EmptyMap, "sequence", SequenceState(savedPair))],
     Response |->
        [savedPair.Response EXCEPT !.TransitionsState =
            Put(EmptyMap, "sequence", NextSequenceState(savedPair))]]

\* AddPairInSequence, lines 56-81: the rewritten saved duplicate
UpdatedPair(savedPair) ==
    [RequestMatcher |->
        [savedPair.RequestMatcher EXCEPT !.RequiresState =
            Put(NonNil(savedPair.RequestMatcher.RequiresState), "sequence",
                SequenceState(savedPair))],
     Response |->
        [savedPair.Response EXCEPT !.TransitionsState =
            Put(NonNil(savedPair.Response.TransitionsState), "sequence",
                NextSequenceState(savedPair))]]

\* AddPairInSequence: counter, the number of saved duplicates
Counter(pairs, pair) ==
    Cardinality({i \in 1..Len(pairs) : DuplicateNoState(pair, pairs[i])})

\* variant of SequencedPair: the new pair gets the counter, not the counter plus one
SequencedPairNoIncrement(pairs, pair) ==
    IF Counter(pairs, pair) # 0
    THEN [pair EXCEPT !.RequestMatcher.RequiresState =
            Put(NonNil(pair.RequestMatcher.RequiresState), "sequence",
                Itoa(Counter(pairs, pair)))]
    ELSE pair

\* AddPairInSequence, lines 64-66 and 90-92: the pair as appended
SequencedPair(pairs, pair) ==
    IF Counter(pairs, pair) # 0
    THEN [pair EXCEPT !.RequestMatcher.RequiresState =
            Put(NonNil(pair.RequestMatcher.RequiresState), "sequence",
                Itoa(Counter(pairs, pair) + 1))]
    ELSE pair

\* Simulation.AddPairInSequence: the pair sequence after the call
AddPairInSequence(pairs, pair) ==
    Append([i \in 1..Len(pairs) |->
                IF DuplicateNoState(pair, pairs[i])
                THEN UpdatedPair(pairs[i])
                ELSE pairs[i]],
           SequencedPair(pairs, pair))

\* AddPairInSequence, line 73: the state map after the call
SequenceStateAfter(pairs, pair, st) ==
    IF \E i \in 1..Len(pairs) :
          /\ DuplicateNoState(pair, pairs[i])
          /\ Get(pairs[i].RequestMatcher.RequiresState, "sequence") = ""
    THEN Put(st, "sequence", "1")
    ELSE st

\* Simulation.DeleteMatchingPairs: the pair sequence after the call
DeleteMatchingPairs(pairs) == <<>>

(* ---------------------------- matching --------------------------------- *)

\* every key the matcher requires is held by the state map with that value
StateSatisfied(requires, st) == \A e \in requires.kv : e \in st.kv

\* the pair fires for the request under the state map
PairMatches(pair, request, st) ==
    /\ pair.RequestMatcher.Fields.of = request
    /\ StateSatisfied(pair.RequestMatcher.RequiresState, st)

\* index of the first pair, in insertion order, that fires; 0 when none does
MatchIndex(pairs, request, st) ==
    IF \E i \in 1..Len(pairs) : PairMatches(pairs[i], request, st)
    THEN CHOOSE i \in 1..Len(pairs) :
            /\ PairMatches(pairs[i], request, st)
            /\ \A j \in 1..(i - 1) : ~PairMatches(pairs[j], request, st)
    ELSE 0

\* post-match effect: the response's transitions overwrite the state by key
ApplyTransitions(st, transitions) ==
    [isNil |-> FALSE,
     kv |-> {e \in st.kv : \A t \in transitions.kv : t[1] # e[1]} \cup transitions.kv]

(* ---------------------------- request cache ---------------------------- *)

NoResponse == [Status |-> 0, Body |-> "", TransitionsState |-> NilMap, Headers |-> {}]

\* the request the middleware script turns rA into
ModifiedRequest == "rM"

\* every request the pipeline handles: what clients send and what middleware returns
AllRequests == Requests \cup {ModifiedRequest}

EmptyCache == [r \in AllRequests |-> [present |-> FALSE, Response |-> NoResponse]]

\* CacheMatcher.GetResponse: the entry stored under the request's fingerprint
CacheGet(cache, request) == cache[request]

\* CacheMatcher.SaveRequestResponsePair
CacheSave(cache, request, response) ==
    [cache EXCEPT ![request] = [present |-> TRUE, Response |-> response]]

(* ---------------------------- Hoverfly --------------------------------- *)

NoError == [StatusCode |-> 0, Description |-> <<>>]

\* GetResponse, lines 272-275
MatchingError ==
    [StatusCode |-> 412,
     Description |-> <<"Could", "not", "find", "recorded", "request,",
                       "please", "record", "it", "first!">>]

\* variant of GetResponse: the pair is saved to the cache before the error check
GetResponseCachesMiss(pairs, st, cache, request) ==
    IF CacheGet(cache, request).present
    THEN [response |-> CacheGet(cache, request).Response, err |-> NoError,
          cache |-> cache, state |-> st]
    ELSE IF MatchIndex(pairs, request, st) = 0
    THEN [response |-> NoResponse, err |-> MatchingError,
          cache |-> CacheSave(cache, request, NoResponse), state |-> st]
    ELSE LET response == pairs[MatchIndex(pairs, request, st)].Response
         IN  [response |-> response, err |-> NoError,
              cache |-> CacheSave(cache, request, response),
              state |-> ApplyTransitions(st, response.TransitionsState)]

\* variant of GetResponse: a matched response is not saved to the cache
GetResponseNoCacheSave(pairs, st, cache, request) ==
    IF CacheGet(cache, request).present
    THEN [response |-> CacheGet(cache, request).Response, err |-> NoError,
          cache |-> cache, state |-> st]
    ELSE IF MatchIndex(pairs, request, st) = 0
    THEN [response |-> NoResponse, err |-> MatchingError,
          cache |-> cache, state |-> st]
    ELSE LET response == pairs[MatchIndex(pairs, request, st)].Response
         IN  [response |-> response, err |-> NoError,
              cache |-> cache,
              state |-> ApplyTransitions(st, response.TransitionsState)]

\* Hoverfly.GetResponse: response, error, and the cache and state map it leaves
GetResponse(pairs, st, cache, request) ==
    IF CacheGet(cache, request).present
    THEN [response |-> CacheGet(cache, request).Response, err |-> NoError,
          cache |-> cache, state |-> st]
    ELSE IF MatchIndex(pairs, request, st) = 0
    THEN [response |-> NoResponse, err |-> MatchingError,
          cache |-> cache, state |-> st]
    ELSE LET response == pairs[MatchIndex(pairs, request, st)].Response
         IN  [response |-> response, err |-> NoError,
              cache |-> CacheSave(cache, request, response),
              state |-> ApplyTransitions(st, response.TransitionsState)]

\* variant of SavedPair: the response is left out of the pair
SavedPairNoResponse(request, response) ==
    [RequestMatcher |-> [Fields |-> ExactMatcherOf(request), RequiresState |-> NilMap],
     Response |-> NoResponse]

\* Hoverfly.Save, lines 289-300: the pair built from a captured request
SavedPair(request, response) ==
    [RequestMatcher |-> [Fields |-> ExactMatcherOf(request), RequiresState |-> NilMap],
     Response |-> response]

(* ---------------------------- history ---------------------------------- *)

NoPair == Pair([kind |-> "none", of |-> "none"], NilMap, "", NilMap)

\* repeat: the operation is a lookup that directly follows a lookup of the same request
Op(op, pair, request, response, err) ==
    [op |-> op, pair |-> pair, req |-> request, response |-> response, err |-> err,
     repeat |-> op = "GetResponse" /\ last.op = "GetResponse" /\ last.req = request]

(* ---------------------------- request goroutines ----------------------- *)

Procs == {1, 2}

IdleProcs ==
    /\ pc = [p \in Procs |-> "idle"]
    /\ req = [p \in Procs |-> "none"]
    /\ lmode = [p \in Procs |-> "none"]
    /\ handler = [p \in Procs |-> "none"]
    /\ result = [p \in Procs |-> [response |-> NoResponse, err |-> NoError]]
    /\ snapshot = [p \in Procs |-> <<>>]
    /\ delayed = [p \in Procs |-> FALSE]
    /\ saved = {}
    /\ captured = [p \in Procs |-> "none"]
    /\ trace = [p \in Procs |-> <<>>]

\* no function outside the pipeline was called yet
NoCall == [fn |-> "none"]

\* no StartProxy yet: nothing registered, no server loop, the wait group at zero
NoProxy ==
    /\ ProxyPort = ""
    /\ Proxy = "nil"
    /\ SL = "nil"
    /\ portHolder = "free"
    /\ server = "none"
    /\ ProxyControlWG = 0
    /\ stopPc = "idle"
    /\ lastProxy = [op |-> "none", err |-> NoError]
    /\ starts = 0

(* ---------------------------- state outside the proxy ----------------- *)

\* the names of the pair objects a caller of the simulation holds
PairObjects == {"p1", "p2"}

\* a pair object: its maps are held by address, 0 is the nil map
RefPair(fields, requires, body, transitions) ==
    [Fields |-> fields, RequiresState |-> requires, Body |-> body,
     TransitionsState |-> transitions]

\* no map made yet, an empty simulation, the caller's pairs without state
InitAlias ==
    /\ heap = <<>>
    /\ refPairs = <<>>
    /\ args = [o \in PairObjects |-> RefPair(ExactMatcherOf("rA"), 0, "b1", 0)]

\* authentication is off unless the handler is made with it on; nothing invalidated
InitAuth ==
    /\ Enabled = FALSE
    /\ blacklist = {}

\* no call of BoltAuth.Delete is under way
NoDelete == [pc |-> "idle", key |-> "", depth |-> 0]

\* NewBoltDBAuthBackend on a new database: no key stored, no call under way
InitBolt ==
    /\ bucket = {}
    /\ del = NoDelete

\* a file: whether it exists, and its content
NoFile == [exists |-> FALSE, content |-> ""]

\* hoverctl before its first command: no PID file, no Hoverfly process
InitPid ==
    /\ pidFile = NoFile
    /\ running = {}
    /\ nextPid = 1

InitExt ==
    /\ InitAlias
    /\ InitAuth
    /\ InitBolt
    /\ InitPid

(* ---------------------------- initial state ---------------------------- *)

\* NewHoverflyWithConfiguration: empty simulation, empty cache
Init ==
    /\ matchingPairs = <<>>
    /\ state = EmptyMap
    /\ RequestCache = EmptyCache
    /\ mode = "simulate"
    /\ middleware = FALSE
    /\ last = [op |-> "init", pair |-> NoPair, req |-> "none", response |-> NoResponse,
               err |-> NoError, repeat |-> FALSE]
    /\ IdleProcs
    /\ NoProxy
    /\ InitExt
    /\ call = NoCall

(* ---------------------------- store operations ------------------------- *)

\* a caller adds a pair with AddPair
AddPairAct(pair, cap) ==
    /\ Len(matchingPairs) < cap
    /\ matchingPairs' = AddPair(matchingPairs, pair)
    /\ last' = Op("AddPair", pair, "none", NoResponse, NoError)
    /\ UNCHANGED <<state, RequestCache>>
    /\ UNCHANGED <<cfgVars, procVars, proxyVars>>
    /\ UNCHANGED <<call, extVars>>

\* a caller adds a pair with AddPairInSequence
AddPairInSequenceAct(pair, cap) ==
    /\ Len(matchingPairs) < cap
    /\ matchingPairs' = AddPairInSequence(matchingPairs, pair)
    /\ state' = SequenceStateAfter(matchingPairs, pair, state)
    /\ last' = Op("AddPairInSequence", pair, "none", NoResponse, NoError)
    /\ UNCHANGED RequestCache
    /\ UNCHANGED <<cfgVars, procVars, proxyVars>>
    /\ UNCHANGED <<call, extVars>>

\* the store is wiped
DeleteMatchingPairsAct ==
    /\ matchingPairs' = DeleteMatchingPairs(matchingPairs)
    /\ last' = Op("DeleteMatchingPairs", NoPair, "none", NoResponse, NoError)
    /\ UNCHANGED <<state, RequestCache>>
    /\ UNCHANGED <<cfgVars, procVars, proxyVars>>
    /\ UNCHANGED <<call, extVars>>

\* Hoverfly.Save of a captured request and its upstream response
SaveAct(request, response) ==
    /\ Len(matchingPairs) < MaxPairs
    /\ matchingPairs' = AddPair(matchingPairs, SavedPair(request, response))
    /\ last' = Op("Save", SavedPair(request, response), request, response, NoError)
    /\ UNCHANGED <<state, RequestCache>>
    /\ UNCHANGED <<cfgVars, procVars, proxyVars>>
    /\ UNCHANGED <<call, extVars>>

\* Hoverfly.GetResponse for a Simulate request
GetResponseAct(request) ==
    LET got == GetResponse(matchingPairs, state, RequestCache, request)
    IN  /\ RequestCache' = got.cache
        /\ state' = got.state
        /\ last' = Op("GetResponse", NoPair, request, got.response, got.err)
        /\ UNCHANGED matchingPairs
        /\ UNCHANGED <<cfgVars, procVars, proxyVars>>
    /\ UNCHANGED <<call, extVars>>

Next ==
    \/ \E pair \in InputPairs : AddPairAct(pair, MaxPairs)
    \/ \E pair \in InputPairs : AddPairInSequenceAct(pair, MaxPairs)
    \/ DeleteMatchingPairsAct
    \/ \E request \in Requests, response \in UpstreamResponses : SaveAct(request, response)
    \/ \E request \in Requests : GetResponseAct(request)

Spec == Init /\ [][Next]_vars

\* the store driven on its own: AddPair, AddPairInSequence and DeleteMatchingPairs
NextSequencing ==
    \/ \E pair \in InputPairs : AddPairAct(pair, MaxSequenced)
    \/ \E pair \in InputPairs : AddPairInSequenceAct(pair, MaxSequenced)
    \/ DeleteMatchingPairsAct

SpecSequencing == Init /\ [][NextSequencing]_vars

(* ---------------------------- upstream and middleware ----------------- *)

\* the modes of the mode state machine
Modes == {"simulate", "capture", "modify", "synthesize", "diff", "spy"}

\* NewHoverflyWithConfiguration, lines 80-85: the mode handlers by mode name
ModeMap ==
    [m \in {"capture", "simulate", "modify", "synthesize"} |->
        CASE m = "capture" -> "CaptureMode"
          [] m = "simulate" -> "SimulateMode"
          [] m = "modify" -> "ModifyMode"
          [] m = "synthesize" -> "SynthesizeMode"]

\* the requests some response-delay rule matches
DelayedRequests == {"rA"}

\* ResponseDelays.GetDelay(requestDetails) # nil
GetDelay(request) == request \in DelayedRequests

\* what the upstream server answers to a request; rB is answered with a redirect
Upstream(request) ==
    CASE request = "rA" -> [Status |-> 200, Body |-> "b1", TransitionsState |-> NilMap,
                           Headers |-> {}]
      [] request = "rB" -> [Status |-> 301, Body |-> "b2", TransitionsState |-> NilMap,
                           Headers |-> {}]
      [] OTHER -> [Status |-> 201, Body |-> "b2", TransitionsState |-> NilMap,
                           Headers |-> {}]

\* the Location header of that answer: rB is redirected to rA
Location(request) == IF request = "rB" THEN "rA" ELSE "none"

\* the status codes for which net/http asks CheckRedirect
RedirectStatuses == {301, 302, 303, 307, 308}

\* variant of CheckRedirect: none is installed, net/http follows the redirect
CheckRedirectFollow == "nil"

\* GetDefaultHoverflyHTTPClient, lines 142-144: what CheckRedirect returns
CheckRedirect == "ErrUseLastResponse"

\* http.Client.Do on a reachable upstream: the requests sent, in order, and the
\* response handed back
HTTPDo(request) ==
    IF /\ Upstream(request).Status \in RedirectStatuses
       /\ Location(request) # "none"
       /\ CheckRedirect # "ErrUseLastResponse"
    THEN [sent |-> <<request, Location(request)>>,
          response |-> Upstream(Location(request))]
    ELSE [sent |-> <<request>>, response |-> Upstream(request)]

\* the error of hf.HTTP.Do when the upstream cannot be reached
UpstreamError == [StatusCode |-> 0, Description |-> <<"Could", "not", "reach", "upstream">>]

\* the header DoRequest sets on the response of the upstream, line 248
WasHereHeader == <<"hoverfly", "Was-Here">>

\* http.Header.Set on a response
SetHeader(response, header) == [response EXCEPT !.Headers = @ \cup {header}]

\* the response of the upstream to the request as DoRequest hands it on
Forwarded(request) == SetHeader(Upstream(request), WasHereHeader)

\* variant of DoRequest: the error of hf.HTTP.Do is dropped
DoRequestDropsError(request, reachable) ==
    IF reachable
    THEN [sent |-> HTTPDo(request).sent,
          response |-> SetHeader(HTTPDo(request).response, WasHereHeader), err |-> NoError]
    ELSE [sent |-> <<request>>, response |-> NoResponse, err |-> NoError]

\* Hoverfly.DoRequest: the response of the upstream, or nil and the error
DoRequest(request, reachable) ==
    IF reachable
    THEN [sent |-> HTTPDo(request).sent,
          response |-> SetHeader(HTTPDo(request).response, WasHereHeader), err |-> NoError]
    ELSE [sent |-> <<request>>, response |-> NoResponse, err |-> UpstreamError]

\* variant of MiddlewareRequest: the script leaves every request as it is
MiddlewareRequestUnchanged(request) == request

\* Middleware.Execute on the request: the script rewrites rA and leaves the rest
MiddlewareRequest(request) == IF request = "rA" THEN ModifiedRequest ELSE request

\* Middleware.Execute on the response: the script answers 200 with its own body
MiddlewareResponse(response) ==
    [Status |-> 200, Body |-> "CHANGED", TransitionsState |-> response.TransitionsState,
     Headers |-> response.Headers]

\* variant of ApplyMiddleware: the middleware is never run
ApplyMiddlewareSkipped(set, pair) == pair

\* Hoverfly.ApplyMiddleware: the pair as the middleware returns it, or unchanged
ApplyMiddleware(set, pair) ==
    IF set
    THEN [Request |-> MiddlewareRequest(pair.Request),
          Response |-> MiddlewareResponse(pair.Response)]
    ELSE pair

\* the error of SynthesizeMode.Process when no middleware is configured
MiddlewareNotSetError ==
    [StatusCode |-> 0, Description |-> <<"Middleware", "not", "set">>]

ForwardingMessage ==
    <<"There", "was", "an", "error", "when", "forwarding", "the", "request", "to",
      "the", "intended", "desintation">>

SynthesizeMessage == <<"Synthesize", "failed">>

\* modes.ErrorResponse: the response a failing handler hands to the client
ErrorResponse(err, message, status) ==
    [Status |-> status, Body |-> message \o err.Description, TransitionsState |-> NilMap,
     Headers |-> {}]

(* ---------------------------- processRequest --------------------------- *)

\* an entry of a request's trace
Event(kind, request) == <<kind, request>>

\* one entry of that kind for every request of the sequence
EventsOf(kind, requests) == [i \in 1..Len(requests) |-> Event(kind, requests[i])]

\* processRequest, line 215: the handler the request is dispatched to; a mode
\* without an entry in modeMap yields the nil handler
Dispatch(p) == IF lmode[p] \in DOMAIN ModeMap THEN ModeMap[lmode[p]] ELSE "nil"

\* variant of ModeForDelay: the mode is read again from the configuration
ModeForDelayReread(p) == mode

\* processRequest, line 219: the mode the delay decision looks at
ModeForDelay(p) == lmode[p]

\* variant of SkipsDelay: only an error keeps the delay away
SkipsDelayOnErrorOnly(p) == result[p].err # NoError

\* processRequest, line 219: err != nil || mode == modes.Capture
SkipsDelay(p) == result[p].err # NoError \/ ModeForDelay(p) = "capture"

\* the admin swaps the active mode
SetModeAct(m) ==
    /\ m # mode
    /\ mode' = m
    /\ UNCHANGED <<storeVars, middleware, last>>
    /\ UNCHANGED <<procVars, proxyVars>>
    /\ UNCHANGED <<call, extVars>>

\* the admin sets or unsets the middleware
SetMiddlewareAct(set) ==
    /\ set # middleware
    /\ middleware' = set
    /\ UNCHANGED <<storeVars, mode, last>>
    /\ UNCHANGED <<procVars, proxyVars>>
    /\ UNCHANGED <<call, extVars>>

\* processRequest, lines 207-213: the request is read and the mode is read once
ReadMode(p, request) ==
    /\ pc[p] = "idle"
    /\ req' = [req EXCEPT ![p] = request]
    /\ lmode' = [lmode EXCEPT ![p] = mode]
    /\ pc' = [pc EXCEPT ![p] = "process"]
    /\ UNCHANGED <<storeVars, cfgVars, last>>
    /\ UNCHANGED <<handler, result, snapshot, delayed, saved, captured>>

\* a request reaches processRequest of a running proxy
ReadModeAct(p, request) ==
    /\ ReadMode(p, request)
    /\ UNCHANGED trace
    /\ UNCHANGED proxyVars
    /\ UNCHANGED <<call, extVars>>

\* SimulateMode.Process: the response comes from GetResponse and passes the
\* middleware when one is set
SimulateProcessAct(p) ==
    /\ pc[p] = "process"
    /\ Dispatch(p) = "SimulateMode"
    /\ LET got == GetResponse(matchingPairs, state, RequestCache, req[p])
           applies == middleware /\ got.err = NoError
           pair == ApplyMiddleware(applies, [Request |-> req[p], Response |-> got.response])
       IN  /\ RequestCache' = got.cache
           /\ state' = got.state
           /\ result' = [result EXCEPT ![p] = [response |-> pair.Response, err |-> got.err]]
           /\ trace' = [trace EXCEPT ![p] =
                          @ \o (IF applies THEN <<Event("middleware", req[p])>> ELSE <<>>)]
    /\ handler' = [handler EXCEPT ![p] = Dispatch(p)]
    /\ pc' = [pc EXCEPT ![p] = "delay"]
    /\ UNCHANGED <<matchingPairs, cfgVars, last, req, lmode, snapshot, delayed, saved, captured>>
    /\ UNCHANGED proxyVars
    /\ UNCHANGED <<call, extVars>>

\* CaptureMode.Process: the middleware, when set, rewrites the request; the
\* request goes upstream through DoRequest; on success Save is entered, on
\* failure the 502 error response is the result
CaptureProcess(p, reachable) ==
    /\ pc[p] = "process"
    /\ Dispatch(p) = "CaptureMode"
    /\ LET pair == ApplyMiddleware(middleware, [Request |-> req[p], Response |-> NoResponse])
           done == DoRequest(pair.Request, reachable)
       IN  /\ captured' = [captured EXCEPT ![p] = pair.Request]
           /\ trace' = [trace EXCEPT ![p] =
                          @ \o (IF middleware THEN <<Event("middleware", req[p])>> ELSE <<>>)
                            \o EventsOf("upstream", done.sent)
                            \o (IF reachable THEN <<>>
                                ELSE <<Event("unreachable", pair.Request)>>)]
           /\ IF done.err = NoError
              THEN /\ result' = [result EXCEPT ![p] =
                                    [response |-> done.response, err |-> NoError]]
                   /\ pc' = [pc EXCEPT ![p] = "save"]
              ELSE /\ result' = [result EXCEPT ![p] =
                                    [response |-> ErrorResponse(done.err, ForwardingMessage, 502),
                                     err |-> done.err]]
                   /\ pc' = [pc EXCEPT ![p] = "delay"]
    /\ handler' = [handler EXCEPT ![p] = Dispatch(p)]
    /\ UNCHANGED <<storeVars, cfgVars, last, req, lmode, snapshot, delayed, saved>>
    /\ UNCHANGED proxyVars

\* CaptureMode.Process with the upstream answering
CaptureForwardAct(p) ==
    /\ Len(matchingPairs) < MaxCaptured
    /\ CaptureProcess(p, TRUE)
    /\ UNCHANGED <<call, extVars>>

\* CaptureMode.Process with the upstream out of reach
CaptureFailAct(p) ==
    /\ CaptureProcess(p, FALSE)
    /\ UNCHANGED <<call, extVars>>

\* ModifyMode.Process: the request goes upstream and the middleware, when set,
\* rewrites the response; the store is not touched
ModifyProcessAct(p, reachable) ==
    /\ pc[p] = "process"
    /\ Dispatch(p) = "ModifyMode"
    /\ LET done == DoRequest(req[p], reachable)
           pair == ApplyMiddleware(middleware, [Request |-> req[p], Response |-> done.response])
       IN  /\ result' = [result EXCEPT ![p] =
                           IF done.err = NoError
                           THEN [response |-> pair.Response, err |-> NoError]
                           ELSE [response |-> ErrorResponse(done.err, ForwardingMessage, 502),
                                 err |-> done.err]]
           /\ trace' = [trace EXCEPT ![p] =
                          @ \o EventsOf("upstream", done.sent)
                            \o (IF reachable THEN <<>> ELSE <<Event("unreachable", req[p])>>)
                            \o (IF middleware /\ done.err = NoError
                                THEN <<Event("middleware", req[p])>> ELSE <<>>)]
    /\ handler' = [handler EXCEPT ![p] = Dispatch(p)]
    /\ pc' = [pc EXCEPT ![p] = "delay"]
    /\ UNCHANGED <<storeVars, cfgVars, last, req, lmode, snapshot, delayed, saved, captured>>
    /\ UNCHANGED proxyVars
    /\ UNCHANGED <<call, extVars>>

\* variant of SynthesizeResult: the request is forwarded when no middleware is set
SynthesizeResultForwards(set, request) ==
    IF set
    THEN [sent |-> <<>>, err |-> NoError,
          response |-> ApplyMiddleware(TRUE, [Request |-> request,
                                              Response |-> NoResponse]).Response]
    ELSE [sent |-> DoRequest(request, TRUE).sent, err |-> NoError,
          response |-> DoRequest(request, TRUE).response]

\* SynthesizeMode.Process: the response the middleware makes of the request and
\* an empty response, or the 503 error response when no middleware is set;
\* nothing is sent upstream
SynthesizeResult(set, request) ==
    IF set
    THEN [sent |-> <<>>, err |-> NoError,
          response |-> ApplyMiddleware(TRUE, [Request |-> request,
                                              Response |-> NoResponse]).Response]
    ELSE [sent |-> <<>>, err |-> MiddlewareNotSetError,
          response |-> ErrorResponse(MiddlewareNotSetError, SynthesizeMessage, 503)]

\* SynthesizeMode.Process
SynthesizeProcessAct(p) ==
    /\ pc[p] = "process"
    /\ Dispatch(p) = "SynthesizeMode"
    /\ LET made == SynthesizeResult(middleware, req[p])
       IN  /\ result' = [result EXCEPT ![p] = [response |-> made.response, err |-> made.err]]
           /\ trace' = [trace EXCEPT ![p] =
                          @ \o EventsOf("upstream", made.sent)
                            \o (IF middleware THEN <<Event("middleware", req[p])>> ELSE <<>>)]
    /\ handler' = [handler EXCEPT ![p] = Dispatch(p)]
    /\ pc' = [pc EXCEPT ![p] = "delay"]
    /\ UNCHANGED <<storeVars, cfgVars, last, req, lmode, snapshot, delayed, saved, captured>>
    /\ UNCHANGED proxyVars
    /\ UNCHANGED <<call, extVars>>

\* processRequest, line 215, for a mode without a handler: Process is called on
\* the nil interface value and the goroutine panics
NilProcessAct(p) ==
    /\ pc[p] = "process"
    /\ Dispatch(p) = "nil"
    /\ handler' = [handler EXCEPT ![p] = Dispatch(p)]
    /\ pc' = [pc EXCEPT ![p] = "panic"]
    /\ UNCHANGED <<storeVars, cfgVars, last, req, lmode, result, snapshot, delayed, saved,
                   captured, trace>>
    /\ UNCHANGED proxyVars
    /\ UNCHANGED <<call, extVars>>

\* the locals of a request goroutine that ended
ResetLocals(p) ==
    /\ pc' = [pc EXCEPT ![p] = "idle"]
    /\ req' = [req EXCEPT ![p] = "none"]
    /\ lmode' = [lmode EXCEPT ![p] = "none"]
    /\ handler' = [handler EXCEPT ![p] = "none"]
    /\ result' = [result EXCEPT ![p] = [response |-> NoResponse, err |-> NoError]]
    /\ delayed' = [delayed EXCEPT ![p] = FALSE]
    /\ captured' = [captured EXCEPT ![p] = "none"]
    /\ trace' = [trace EXCEPT ![p] = <<>>]
    /\ UNCHANGED <<storeVars, cfgVars, last, snapshot, saved>>
    /\ UNCHANGED proxyVars

\* net/http recovers the panic of the handler goroutine and drops the
\* connection: the client gets no response
RecoverAct(p) ==
    /\ pc[p] = "panic"
    /\ ResetLocals(p)
    /\ UNCHANGED <<call, extVars>>

\* Save -> AddPair, lines 25-32: the loop over the stored pairs; a duplicate
\* ends the call
SaveScanAct(p) ==
    /\ pc[p] = "save"
    /\ IF IsDuplicate(matchingPairs, SavedPair(captured[p], result[p].response))
       THEN /\ pc' = [pc EXCEPT ![p] = "delay"]
            /\ saved' = saved \cup {captured[p]}
       ELSE /\ pc' = [pc EXCEPT ![p] = "append"]
            /\ saved' = saved
    /\ trace' = [trace EXCEPT ![p] = @ \o <<Event("AddPair", captured[p])>>]
    /\ UNCHANGED <<storeVars, cfgVars, last, req, lmode, handler, result, snapshot, delayed,
                   captured>>
    /\ UNCHANGED proxyVars
    /\ UNCHANGED <<call, extVars>>

\* AddPair, line 33: append reads the slice this.matchingPairs
SaveLoadAct(p) ==
    /\ pc[p] = "append"
    /\ snapshot' = [snapshot EXCEPT ![p] = matchingPairs]
    /\ pc' = [pc EXCEPT ![p] = "store"]
    /\ UNCHANGED <<storeVars, cfgVars, last, req, lmode, handler, result, delayed, saved,
                   captured, trace>>
    /\ UNCHANGED proxyVars
    /\ UNCHANGED <<call, extVars>>

\* AddPair, line 33: the appended slice is assigned to this.matchingPairs
SaveStoreAct(p) ==
    /\ pc[p] = "store"
    /\ matchingPairs' = Append(snapshot[p], SavedPair(captured[p], result[p].response))
    /\ snapshot' = [snapshot EXCEPT ![p] = <<>>]
    /\ saved' = saved \cup {captured[p]}
    /\ pc' = [pc EXCEPT ![p] = "delay"]
    /\ UNCHANGED <<state, RequestCache, cfgVars, last, req, lmode, handler, result, delayed,
                   captured, trace>>
    /\ UNCHANGED proxyVars
    /\ UNCHANGED <<call, extVars>>

\* processRequest, lines 219-226: no delay on error or in capture mode,
\* otherwise the delay rule of the request is looked up and, when there is one,
\* executed
DelayAct(p) ==
    /\ pc[p] = "delay"
    /\ delayed' = [delayed EXCEPT ![p] = ~SkipsDelay(p) /\ GetDelay(req[p])]
    /\ trace' = [trace EXCEPT ![p] =
                   @ \o (IF SkipsDelay(p) THEN <<>> ELSE <<Event("GetDelay", req[p])>>)
                     \o (IF ~SkipsDelay(p) /\ GetDelay(req[p])
                         THEN <<Event("Execute", req[p])>> ELSE <<>>)]
    /\ pc' = [pc EXCEPT ![p] = "done"]
    /\ UNCHANGED <<storeVars, cfgVars, last, req, lmode, handler, result, snapshot, saved,
                   captured>>
    /\ UNCHANGED proxyVars
    /\ UNCHANGED <<call, extVars>>

\* processRequest, lines 220 and 228: the response is returned
ReturnAct(p) ==
    /\ pc[p] = "done"
    /\ ResetLocals(p)
    /\ UNCHANGED <<call, extVars>>

\* requests served by concurrent goroutines while the admin changes the mode
NextRequests ==
    \/ \E m \in Modes : SetModeAct(m)
    \/ \E p \in Procs, request \in Requests : ReadModeAct(p, request)
    \/ \E p \in Procs : SimulateProcessAct(p)
    \/ \E p \in Procs : CaptureForwardAct(p)
    \/ \E p \in Procs : CaptureFailAct(p)
    \/ \E p \in Procs, reachable \in BOOLEAN : ModifyProcessAct(p, reachable)
    \/ \E p \in Procs : SynthesizeProcessAct(p)
    \/ \E p \in Procs : NilProcessAct(p)
    \/ \E p \in Procs : RecoverAct(p)
    \/ \E p \in Procs : SaveScanAct(p)
    \/ \E p \in Procs : SaveLoadAct(p)
    \/ \E p \in Procs : SaveStoreAct(p)
    \/ \E p \in Procs : DelayAct(p)
    \/ \E p \in Procs : ReturnAct(p)

SpecRequests == Init /\ [][NextRequests]_vars

\* the goroutine of the one connection a client that waits for every answer uses
Clients == {1}

\* the admin imports a pair while no request is in flight
ImportAct(pair) ==
    /\ \A p \in Procs : pc[p] = "idle"
    /\ AddPairAct(pair, MaxCaptured)
    /\ UNCHANGED <<call, extVars>>

\* requests of one client that sends the next request when the last was
\* answered, while the admin changes the mode and the middleware and imports pairs
NextPipeline ==
    \/ \E pair \in ImportedPairs : ImportAct(pair)
    \/ \E m \in Modes : SetModeAct(m)
    \/ \E set \in BOOLEAN : SetMiddlewareAct(set)
    \/ \E p \in Clients, request \in Requests : ReadModeAct(p, request)
    \/ \E p \in Clients : SimulateProcessAct(p)
    \/ \E p \in Clients : CaptureForwardAct(p)
    \/ \E p \in Clients : CaptureFailAct(p)
    \/ \E p \in Clients, reachable \in BOOLEAN : ModifyProcessAct(p, reachable)
    \/ \E p \in Clients : SynthesizeProcessAct(p)
    \/ \E p \in Clients : NilProcessAct(p)
    \/ \E p \in Clients : RecoverAct(p)
    \/ \E p \in Clients : SaveScanAct(p)
    \/ \E p \in Clients : SaveLoadAct(p)
    \/ \E p \in Clients : SaveStoreAct(p)
    \/ \E p \in Clients : DelayAct(p)
    \/ \E p \in Clients : ReturnAct(p)

SpecPipeline == Init /\ [][NextPipeline]_vars

(* ---------------------------- proxy lifecycle -------------------------- *)

\* the values of Cfg.ProxyPort: not set, or the port of the listener tests
Ports == {"", "9778"}

\* StartProxy, line 156
PortNotSetError ==
    [StatusCode |-> 0, Description |-> <<"Proxy", "port", "is", "not", "set!">>]

\* the error of net.Listen on a port that is held
BindError ==
    [StatusCode |-> 0, Description |-> <<"address", "already", "in", "use">>]

\* variant of Listen: the port is handed out although it is held
ListenAlwaysBinds(holder) == [err |-> NoError, holder |-> "listener"]

\* net.Listen("tcp", port): the listener holds the port, or the error
Listen(holder) ==
    IF holder = "free"
    THEN [err |-> NoError, holder |-> "listener"]
    ELSE [err |-> BindError, holder |-> holder]

\* variant of Released: Stop leaves the listener open
ReleasedNever(sl, holder) == holder

\* StoppableListener.Stop: closing the wrapped listener gives the port back
Released(sl, holder) == IF sl = "open" THEN "free" ELSE holder

\* variant of Done: the server goroutine does not signal the wait group
DoneSkipped(counter) == counter

\* StartProxy, lines 187-190: the deferred ProxyControlWG.Done()
Done(counter) == counter - 1

\* tests set Cfg.ProxyPort before they start the proxy
SetProxyPortAct(port) ==
    /\ port # ProxyPort
    /\ ProxyPort' = port
    /\ UNCHANGED <<Proxy, SL, portHolder, server, ProxyControlWG, stopPc, lastProxy, starts>>
    /\ UNCHANGED <<storeVars, cfgVars, last, procVars>>
    /\ UNCHANGED <<call, extVars>>

\* another process binds the port
OtherBindAct ==
    /\ portHolder = "free"
    /\ portHolder' = "other"
    /\ UNCHANGED <<ProxyPort, Proxy, SL, server, ProxyControlWG, stopPc, lastProxy, starts>>
    /\ UNCHANGED <<storeVars, cfgVars, last, procVars>>
    /\ UNCHANGED <<call, extVars>>

\* the other process gives the port back
OtherReleaseAct ==
    /\ portHolder = "other"
    /\ portHolder' = "free"
    /\ UNCHANGED <<ProxyPort, Proxy, SL, server, ProxyControlWG, stopPc, lastProxy, starts>>
    /\ UNCHANGED <<storeVars, cfgVars, last, procVars>>
    /\ UNCHANGED <<call, extVars>>

\* Hoverfly.StartProxy, called while no StopProxy of the caller is under way
StartProxyAct ==
    /\ stopPc = "idle"
    /\ starts < MaxStarts
    /\ IF ProxyPort = ""
       THEN /\ lastProxy' = [op |-> "StartProxy", err |-> PortNotSetError]
            /\ UNCHANGED <<Proxy, SL, portHolder, server, ProxyControlWG, starts>>
       ELSE /\ Proxy' = "proxy"
            /\ portHolder' = Listen(portHolder).holder
            /\ lastProxy' = [op |-> "StartProxy", err |-> Listen(portHolder).err]
            /\ IF Listen(portHolder).err = NoError
               THEN /\ SL' = "open"
                    /\ ProxyControlWG' = ProxyControlWG + 1
                    /\ server' = "spawned"
                    /\ starts' = starts + 1
               ELSE UNCHANGED <<SL, ProxyControlWG, server, starts>>
    /\ UNCHANGED <<ProxyPort, stopPc>>
    /\ UNCHANGED <<storeVars, cfgVars, last, procVars>>
    /\ UNCHANGED <<call, extVars>>

\* the spawned goroutine, lines 191-193: server.Serve(sl) is entered
ServeAct ==
    /\ server = "spawned"
    /\ server' = "serving"
    /\ UNCHANGED <<ProxyPort, Proxy, SL, portHolder, ProxyControlWG, stopPc, lastProxy, starts>>
    /\ UNCHANGED <<storeVars, cfgVars, last, procVars>>
    /\ UNCHANGED <<call, extVars>>

\* server.Serve accepts a connection and its request reaches processRequest
AcceptAct(p, request) ==
    /\ server = "serving"
    /\ SL = "open"
    /\ ReadMode(p, request)
    /\ trace' = [trace EXCEPT ![p] = <<Event("accept", Itoa(starts))>>]
    /\ UNCHANGED proxyVars
    /\ UNCHANGED <<call, extVars>>

\* the spawned goroutine, lines 187-193: Accept fails on the closed listener,
\* server.Serve returns and the deferred Done runs
ServeReturnAct ==
    /\ server = "serving"
    /\ SL = "stopped"
    /\ server' = "exited"
    /\ ProxyControlWG' = Done(ProxyControlWG)
    /\ UNCHANGED <<ProxyPort, Proxy, SL, portHolder, stopPc, lastProxy, starts>>
    /\ UNCHANGED <<storeVars, cfgVars, last, procVars>>
    /\ UNCHANGED <<call, extVars>>

\* Hoverfly.StopProxy, line 201: hf.SL.Stop()
StopProxyAct ==
    /\ stopPc = "idle"
    /\ SL # "nil"
    /\ SL' = "stopped"
    /\ portHolder' = Released(SL, portHolder)
    /\ stopPc' = "wait"
    /\ UNCHANGED <<ProxyPort, Proxy, server, ProxyControlWG, lastProxy, starts>>
    /\ UNCHANGED <<storeVars, cfgVars, last, procVars>>
    /\ UNCHANGED <<call, extVars>>

\* Hoverfly.StopProxy, line 202: ProxyControlWG.Wait() returns at zero
StopProxyReturnAct ==
    /\ stopPc = "wait"
    /\ ProxyControlWG = 0
    /\ stopPc' = "idle"
    /\ lastProxy' = [op |-> "StopProxy", err |-> NoError]
    /\ UNCHANGED <<ProxyPort, Proxy, SL, portHolder, server, ProxyControlWG, starts>>
    /\ UNCHANGED <<storeVars, cfgVars, last, procVars>>
    /\ UNCHANGED <<call, extVars>>

\* the proxy is started and stopped by one caller while it serves Simulate
\* requests on concurrent connections
NextLifecycle ==
    \/ \E port \in Ports : SetProxyPortAct(port)
    \/ OtherBindAct
    \/ OtherReleaseAct
    \/ StartProxyAct
    \/ ServeAct
    \/ \E p \in Procs, request \in Requests : AcceptAct(p, request)
    \/ ServeReturnAct
    \/ StopProxyAct
    \/ StopProxyReturnAct
    \/ \E p \in Procs : SimulateProcessAct(p)
    \/ \E p \in Procs : DelayAct(p)
    \/ \E p \in Procs : ReturnAct(p)

SpecLifecycle == Init /\ [][NextLifecycle]_vars

\* the go scheduler runs the server goroutine and the caller of StopProxy
SpecLifecycleFair ==
    /\ Init
    /\ [][NextLifecycle]_vars
    /\ WF_vars(ServeAct)
    /\ WF_vars(ServeReturnAct)
    /\ WF_vars(StopProxyReturnAct)

(* ---------------------------- properties: the store -------------------- *)

\* indices of the stored pairs that carry the field matchers, in insertion order
GroupOf(fields) == {i \in 1..Len(matchingPairs) : matchingPairs[i].RequestMatcher.Fields = fields}

\* index of the k-th stored pair that carries the field matchers
NthOf(fields, k) ==
    CHOOSE i \in GroupOf(fields) : Cardinality({j \in GroupOf(fields) : j <= i}) = k

RequiredSequence(pair) == Get(pair.RequestMatcher.RequiresState, "sequence")

TransitionSequence(pair) == Get(pair.Response.TransitionsState, "sequence")

\* C1: AddPair (also when called through Save) leaves the pair sequence
\* unchanged when a stored pair has a deeply equal RequestMatcher, and otherwise
\* appends the pair as the last element.
C1_AddPairSkipsDuplicates ==
    [][last'.op \in {"AddPair", "Save"} =>
        IF \E i \in 1..Len(matchingPairs) :
              matchingPairs[i].RequestMatcher = last'.pair.RequestMatcher
        THEN matchingPairs' = matchingPairs
        ELSE /\ Len(matchingPairs') = Len(matchingPairs) + 1
             /\ matchingPairs'[Len(matchingPairs')] = last'.pair
             /\ \A i \in 1..Len(matchingPairs) : matchingPairs'[i] = matchingPairs[i]]_vars

\* C1 witness: AddPair was called with a pair whose matcher is stored with
\* another response, and the pair was not added.
C1_Witness ==
    /\ last.op = "AddPair"
    /\ \E i \in 1..Len(matchingPairs) :
          matchingPairs[i].RequestMatcher = last.pair.RequestMatcher
    /\ \A i \in 1..Len(matchingPairs) : matchingPairs[i] # last.pair

\* the k-th pair of the group requires sequence = k, and every pair before the
\* last transitions sequence to k + 1
Numbered(pairs, group) ==
    \A i \in group :
        LET k == Cardinality({j \in group : j <= i})
        IN  /\ RequiredSequence(pairs[i]) = DecimalStrings[k]
            /\ k < Cardinality(group) => TransitionSequence(pairs[i]) = DecimalStrings[k + 1]

\* what inserting pairs with the same field matchers through AddPairInSequence
\* leaves: nothing, one pair without a sequence entry, or pairs numbered 1..N
Sequenced(pairs, group) ==
    \/ group = {}
    \/ /\ Cardinality(group) = 1
       /\ \A i \in group : RequiredSequence(pairs[i]) = ""
    \/ /\ Cardinality(group) >= 2
       /\ Numbered(pairs, group)

C3_NoIdenticalMatchers ==
    \A i, j \in 1..Len(matchingPairs) :
        i # j => matchingPairs[i].RequestMatcher # matchingPairs[j].RequestMatcher

(* ---------------------------- properties: Simulate lookups ------------- *)

\* the words occur in the text as one run
Contains(text, words) ==
    \E k \in 0..(Len(text) - Len(words)) :
        \A i \in 1..Len(words) : text[k + i] = words[i]

\* the store holds exactly A then A' with the same field matchers, as left by
\* two AddPairInSequence calls, and the request matches their field matchers
SequencedPairOfTwo(request) ==
    /\ Len(matchingPairs) = 2
    /\ matchingPairs[1].RequestMatcher.Fields = ExactMatcherOf(request)
    /\ matchingPairs[2].RequestMatcher.Fields = ExactMatcherOf(request)
    /\ matchingPairs[1].RequestMatcher.RequiresState = Put(EmptyMap, "sequence", "1")
    /\ matchingPairs[2].RequestMatcher.RequiresState = Put(EmptyMap, "sequence", "2")
    /\ TransitionSequence(matchingPairs[1]) = "2"

\* C4: with A then A' inserted with identical matchers and nothing cached for
\* the request, the first request returns A's response and sets sequence to 2,
\* and the identical request that follows returns A''s response.
C4_SequencedServing ==
    [][/\ (/\ SequencedPairOfTwo(last'.req)
           /\ last.op = "AddPairInSequence"
           /\ last'.op = "GetResponse"
           /\ Get(state, "sequence") = "1"
           /\ ~RequestCache[last'.req].present)
          => /\ last'.response.Body = matchingPairs[1].Response.Body
             /\ Get(state', "sequence") = "2"
       /\ (/\ SequencedPairOfTwo(last'.req)
           /\ last.op = "GetResponse"
           /\ last.req = last'.req
           /\ last.response = matchingPairs[1].Response
           /\ Get(state, "sequence") = "2"
           /\ last'.op = "GetResponse")
          => last'.response.Body = matchingPairs[2].Response.Body]_vars

\* C5: the lookup of a request that directly follows Save of that request
\* returns the saved response, when the saved pair is the last of the store and
\* no pair before it matches the request.
C5_InsertThenMatch ==
    [][(/\ last.op = "Save"
        /\ last'.op = "GetResponse"
        /\ last'.req = last.req
        /\ Len(matchingPairs) >= 1
        /\ matchingPairs[Len(matchingPairs)] = last.pair
        /\ \A i \in 1..(Len(matchingPairs) - 1) :
              ~PairMatches(matchingPairs[i], last.req, state))
       => /\ last'.err = NoError
          /\ last'.response.Body = last.pair.Response.Body]_vars

\* C6: after every write to the store (Save, AddPair, AddPairInSequence,
\* DeleteMatchingPairs) the cache holds no entry.
C6_CacheInvalidatedOnWrite ==
    last.op \in {"Save", "AddPair", "AddPairInSequence", "DeleteMatchingPairs"}
        => \A request \in Requests : ~RequestCache[request].present

\* the lookup that leads to the next state finds the request neither in the
\* cache nor matched by a stored pair
LookupMisses ==
    /\ last'.op = "GetResponse"
    /\ ~RequestCache[last'.req].present
    /\ \A i \in 1..Len(matchingPairs) : ~PairMatches(matchingPairs[i], last'.req, state)

C9_WritersSerialized ==
    /\ \A request \in saved :
          \E i \in 1..Len(matchingPairs) :
              matchingPairs[i].RequestMatcher.Fields = ExactMatcherOf(request)
    /\ \A i, j \in 1..Len(matchingPairs) :
          i # j => matchingPairs[i].RequestMatcher # matchingPairs[j].RequestMatcher

\* C10: a request is processed by the handler of the mode read when it
\* started, and is delayed exactly when that mode is not capture, Process
\* returned no error and a delay rule matches, whatever the mode is by then.
C10_CompletesUnderStartMode ==
    \A p \in Procs :
        /\ pc[p] \in {"save", "append", "store", "delay", "done"}
              => handler[p] = ModeMap[lmode[p]]
        /\ pc[p] = "done"
              => delayed[p] = (/\ result[p].err = NoError
                               /\ lmode[p] # "capture"
                               /\ req[p] \in DelayedRequests)

\* C10 witness: a request that started in simulate mode is done and was
\* delayed, and the mode is capture by now.
C10_Witness ==
    \E p \in Procs :
        /\ pc[p] = "done"
        /\ lmode[p] = "simulate"
        /\ mode = "capture"
        /\ handler[p] = "SimulateMode"
        /\ delayed[p]

(* ---------------------------- properties: modes and delays ------------- *)

\* the request's trace holds an entry of that kind
HasEvent(p, kind) == \E i \in 1..Len(trace[p]) : trace[p][i][1] = kind

\* position of the first entry of that kind in the request's trace, 0 when none
FirstEvent(p, kind) ==
    IF HasEvent(p, kind)
    THEN CHOOSE i \in 1..Len(trace[p]) :
            /\ trace[p][i][1] = kind
            /\ \A j \in 1..(i - 1) : trace[p][j][1] # kind
    ELSE 0

\* C11: the mode is one of simulate, capture, modify, synthesize, diff and spy,
\* and processRequest dispatches every request to a handler defined for the mode
\* it read: no request is dispatched to the nil handler.
C11_EveryModeDispatched ==
    /\ mode \in Modes
    /\ \A p \in Procs :
          /\ pc[p] # "idle" => lmode[p] \in Modes
          /\ handler[p] # "nil"
          /\ pc[p] # "panic"

\* C12: a delay rule is looked up, and executed when there is one, only after
\* Process has returned a response without an error, only for a mode other than
\* capture, and before the response is returned; in capture mode and on an error
\* nothing is looked up or executed.
C12_DelayOnlyAfterSelection ==
    \A p \in Procs :
        /\ (HasEvent(p, "GetDelay") \/ HasEvent(p, "Execute") \/ delayed[p])
              => /\ pc[p] = "done"
                 /\ handler[p] \in {"SimulateMode", "ModifyMode", "SynthesizeMode"}
                 /\ result[p].err = NoError
                 /\ lmode[p] # "capture"
                 /\ trace[p][Len(trace[p])][1] \in {"GetDelay", "Execute"}
        /\ HasEvent(p, "Execute") => FirstEvent(p, "GetDelay") = FirstEvent(p, "Execute") - 1
        /\ (pc[p] = "done" /\ result[p].err = NoError /\ lmode[p] # "capture")
              => /\ HasEvent(p, "GetDelay")
                 /\ HasEvent(p, "Execute") = (req[p] \in DelayedRequests)
                 /\ delayed[p] = HasEvent(p, "Execute")

\* C12 witness: a capture request for which a delay rule exists is about to
\* return the upstream response, and no delay was looked up or executed.
C12_Witness ==
    \E p \in Procs :
        /\ pc[p] = "done"
        /\ lmode[p] = "capture"
        /\ result[p].err = NoError
        /\ req[p] \in DelayedRequests
        /\ ~HasEvent(p, "GetDelay")
        /\ ~delayed[p]

(* ---------------------------- properties: proxy lifecycle -------------- *)

\* StopProxy has returned and no StartProxy has succeeded since
Stopped == SL = "stopped" /\ stopPc = "idle"

\* the step accepts a connection
Accepts == \E p \in Procs : pc[p] = "idle" /\ pc'[p] = "process"

\* C13: after a successful StartProxy a StopProxy that was entered returns;
\* when it has returned the listener is closed, the server loop has exited and
\* has signalled the wait group, the port is given back, and no connection is
\* accepted until the proxy is started again.
C13_StopProxyReturns ==
    /\ (stopPc = "wait") ~> (stopPc = "idle" /\ lastProxy.op = "StopProxy")
    /\ [](Stopped => /\ server = "exited"
                     /\ ProxyControlWG = 0
                     /\ portHolder # "listener")
    /\ [][Accepts => ~Stopped /\ stopPc = "idle"]_vars

\* C13 witness: the proxy was started, served a request that is still in
\* flight, and StopProxy has returned.
C13_Witness ==
    /\ lastProxy = [op |-> "StopProxy", err |-> NoError]
    /\ Stopped
    /\ starts >= 1
    /\ \E p \in Procs : pc[p] = "delay" /\ trace[p][1] = Event("accept", "1")

\* C14: a StartProxy that follows a returned StopProxy on the same port, which
\* no other process has taken, succeeds: a new listener is registered and a new
\* server loop is spawned, and that loop comes to serve.
C14_RestartSucceeds ==
    /\ [][(/\ lastProxy.op = "StopProxy"
           /\ lastProxy'.op = "StartProxy"
           /\ starts >= 1
           /\ ProxyPort # ""
           /\ portHolder # "other")
          => /\ lastProxy'.err = NoError
             /\ SL' = "open"
             /\ server' = "spawned"
             /\ ProxyControlWG' = 1
             /\ starts' = starts + 1]_vars
    /\ (server = "spawned") ~> (server = "serving")

\* C14 witness: a request accepted by the listener of the second StartProxy has
\* its response.
C14_Witness ==
    /\ starts = 2
    /\ \E p \in Procs : pc[p] = "done" /\ trace[p][1] = Event("accept", "2")

\* C15: a StartProxy called with an empty port, or with a port that is held,
\* returns an error and leaves the server loop, the wait-group counter, the
\* registered listener and the port as they were.
C15_FailedStartHasNoEffect ==
    [][(/\ lastProxy' # lastProxy
        /\ lastProxy'.op = "StartProxy"
        /\ (ProxyPort = "" \/ portHolder # "free"))
       => /\ lastProxy'.err # NoError
          /\ UNCHANGED <<server, ProxyControlWG, SL, portHolder, starts>>]_vars

\* C15 witness: StartProxy failed to bind the port its own running listener
\* holds, and that listener still serves.
C15_Witness ==
    /\ lastProxy = [op |-> "StartProxy", err |-> BindError]
    /\ SL = "open"
    /\ server = "serving"
    /\ ProxyControlWG = 1
    /\ portHolder = "listener"

(* ---------------------------- middleware executor ---------------------- *)

\* the payloads handed to the middleware: a request and a response
Payloads ==
    {[Request |-> r, Response |-> resp] :
        r \in Requests, resp \in UpstreamResponses \cup {NoResponse}}

\* json.Marshal of the payload's view: the document the middleware reads or writes
MarshalPayload(payload) ==
    [kind |-> "json", request |-> payload.Request, response |-> payload.Response]

\* an empty output and an output that is no JSON
EmptyOutput == [kind |-> "empty", request |-> "none", response |-> NoResponse]
TextOutput == [kind |-> "text", request |-> "none", response |-> NoResponse]

\* what a middleware may write: a payload as JSON, nothing, or other text
Outputs == {MarshalPayload(payload) : payload \in Payloads} \cup {EmptyOutput, TextOutput}

\* json.Unmarshal into the payload view: the payload and whether the text parsed
UnmarshalPayload(output) ==
    [ok |-> output.kind = "json",
     payload |-> [Request |-> output.request, Response |-> output.response],
     err |-> IF output.kind = "json" THEN "nil"
             ELSE IF output.kind = "empty" THEN "unexpected end of JSON input"
             ELSE "invalid character"]

\* what the remote middleware answers: no answer at all, or a status and a body
RemoteReplies ==
    {[reached |-> FALSE, status |-> 0, body |-> EmptyOutput]}
        \cup {[reached |-> TRUE, status |-> st, body |-> out] :
                 st \in {200, 404}, out \in Outputs}

\* variant of ExecuteMiddlewareRemotely: the status of the answer is not looked at
ExecuteMiddlewareRemotelyAnyStatus(payload, reply) ==
    IF reply.reached /\ UnmarshalPayload(reply.body).ok
    THEN [payload |-> UnmarshalPayload(reply.body).payload, err |-> "nil"]
    ELSE [payload |-> payload, err |-> "Error when communicating with remote middleware"]

\* ExecuteMiddlewareRemotely: the payload is posted; only a 200 whose body
\* parses replaces it
ExecuteMiddlewareRemotely(payload, reply) ==
    IF ~reply.reached \/ reply.status # 200
    THEN [payload |-> payload, err |-> "Error when communicating with remote middleware"]
    ELSE IF UnmarshalPayload(reply.body).ok
    THEN [payload |-> UnmarshalPayload(reply.body).payload, err |-> "nil"]
    ELSE [payload |-> payload, err |-> UnmarshalPayload(reply.body).err]

\* how a run of the local middleware ends: its exit code and its standard output
LocalRuns == {[exit |-> e, stdout |-> out] : e \in {0, 1}, out \in Outputs}

\* ExecuteMiddlewareLocally: the payload goes to the process's standard input;
\* an output that parses replaces it, any other output is logged and dropped
ExecuteMiddlewareLocally(payload, run) ==
    IF run.exit # 0
    THEN [payload |-> payload, err |-> "exit status"]
    ELSE IF UnmarshalPayload(run.stdout).ok
    THEN [payload |-> UnmarshalPayload(run.stdout).payload, err |-> "nil"]
    ELSE [payload |-> payload, err |-> "nil"]

\* a caller runs the remote middleware on a payload
ExecuteMiddlewareRemotelyAct(payload, reply) ==
    /\ call' = [fn |-> "ExecuteMiddlewareRemotely", payload |-> payload, reply |-> reply,
                out |-> ExecuteMiddlewareRemotely(payload, reply)]
    /\ UNCHANGED <<storeVars, cfgVars, last, procVars, proxyVars, extVars>>

\* a caller runs the local middleware on a payload
ExecuteMiddlewareLocallyAct(payload, run) ==
    /\ call' = [fn |-> "ExecuteMiddlewareLocally", payload |-> payload, run |-> run,
                out |-> ExecuteMiddlewareLocally(payload, run)]
    /\ UNCHANGED <<storeVars, cfgVars, last, procVars, proxyVars, extVars>>

\* the middleware executor called on every payload with every outcome
NextMiddleware ==
    \/ \E payload \in Payloads, reply \in RemoteReplies :
          ExecuteMiddlewareRemotelyAct(payload, reply)
    \/ \E payload \in Payloads, run \in LocalRuns :
          ExecuteMiddlewareLocallyAct(payload, run)

SpecMiddleware == Init /\ [][NextMiddleware]_vars

(* ---------------------------- simulation views ------------------------- *)

\* the scalar fields of a v1 request view
ScalarFields == {"path", "method", "destination", "scheme", "query", "body"}

\* a nil pointer and a pointer to a value; a value is a sequence of pieces of text
Absent == [set |-> FALSE, v |-> <<>>]
Some(v) == [set |-> TRUE, v |-> v]

\* a query without and with a percent escape
PlainQuery == <<"q=a">>
EscapedQuery == <<"q=a", "%20", "b">>

\* url.QueryUnescape: every escape of a blank becomes the blank
QueryUnescape(v) == [i \in DOMAIN v |-> IF v[i] = "%20" THEN " " ELSE v[i]]

\* RequestDetailsView of a v1 pair: the request type and the fields that are set
V1Request(requestType, present, query) ==
    [requestType |-> requestType,
     fields |-> [f \in ScalarFields |->
                    IF f \notin present THEN Absent
                    ELSE IF f = "query" THEN Some(query) ELSE Some(<<f>>)]]

\* the request views of the v1 documents
V1Requests ==
    {V1Request(Some(<<"recording">>), ScalarFields, PlainQuery),
     V1Request(Some(<<"template">>), ScalarFields, PlainQuery),
     V1Request(Some(<<"recording">>), ScalarFields, EscapedQuery),
     V1Request(Some(<<"template">>), {"query"}, EscapedQuery),
     V1Request(Absent, {"method"}, PlainQuery),
     V1Request(Absent, {}, PlainQuery)}

\* ResponseDetailsView
ResponseView(body) == [status |-> 200, body |-> body]

\* a v1 pair without request and response, and the v1 pairs that have both
EmptyPairView ==
    [hasRequest |-> FALSE, hasResponse |-> FALSE,
     request |-> V1Request(Absent, {}, PlainQuery), response |-> ResponseView("")]
V1PairViews ==
    {[hasRequest |-> TRUE, hasResponse |-> TRUE, request |-> r, response |-> ResponseView("b1")] :
        r \in V1Requests}

\* RequestFieldMatchersView of one field: exactMatch or globMatch of a value
FieldMatcherView(name, v) == Some([matcher |-> name, value |-> v])

\* variant of UpgradeField: the query is not percent-decoded
UpgradeFieldKeepsQuery(request, f) ==
    IF ~request.fields[f].set THEN Absent
    ELSE FieldMatcherView(IF request.requestType = Some(<<"template">>)
                          THEN "globMatch" ELSE "exactMatch",
                          request.fields[f].v)

\* SimulationViewV1.Upgrade on one field of a request: a field that is set
\* becomes a glob matcher for a template and an exact matcher otherwise, the
\* query percent-decoded
UpgradeField(request, f) ==
    IF ~request.fields[f].set THEN Absent
    ELSE FieldMatcherView(IF request.requestType = Some(<<"template">>)
                          THEN "globMatch" ELSE "exactMatch",
                          IF f = "query" THEN QueryUnescape(request.fields[f].v)
                          ELSE request.fields[f].v)

\* SimulationViewV1.Upgrade on one pair
UpgradePair(pairView) ==
    [requestMatcher |-> [f \in ScalarFields |-> UpgradeField(pairView.request, f)],
     response |-> pairView.response]

\* a v2 pair as written by an older version: the query still escaped
V2PairViews ==
    {[requestMatcher |-> [f \in ScalarFields |-> UpgradeFieldKeepsQuery(pv.request, f)],
      response |-> pv.response] : pv \in V1PairViews}

\* SimulationViewV2.Upgrade on one pair: the query matcher is percent-decoded
UpgradePairV2(pairView) ==
    [pairView EXCEPT !.requestMatcher.query =
        IF @.set THEN FieldMatcherView(@.v.matcher, QueryUnescape(@.v.value)) ELSE @]

\* the pairs of v3 documents
V3PairViews == {UpgradePair(pv) : pv \in V1PairViews}

\* the lists of at most two of the given pair views
ListsOf(views) ==
    {<<>>} \cup {<<x>> : x \in views} \cup {<<x, y>> : x \in views, y \in views}

\* MetaView
Meta(present, schemaVersion) ==
    [present |-> present, schemaVersion |-> schemaVersion,
     hoverflyVersion |-> "v0.11.0", timeExported |-> "today"]

\* a request body handed to the import
Document(json, meta, pairs, delays) ==
    [json |-> json, meta |-> meta, pairs |-> pairs, delays |-> delays]

\* the delays of a document
DelayLists == {<<>>, <<"delay">>}

\* the bodies handed to the import: no JSON, no meta, no or an unknown schema
\* version, and the three known versions
ImportBodies ==
    {Document(FALSE, Meta(FALSE, Absent), <<>>, <<>>)}
        \cup {Document(TRUE, Meta(FALSE, Absent), pairs, delays) :
                 pairs \in ListsOf(V1PairViews), delays \in DelayLists}
        \cup {Document(TRUE, Meta(TRUE, version), pairs, delays) :
                 version \in {Absent, Some(<<"v1">>), Some(<<"r3">>)},
                 pairs \in ListsOf(V1PairViews \cup {EmptyPairView}), delays \in DelayLists}
        \cup {Document(TRUE, Meta(TRUE, Some(<<"v2">>)), pairs, delays) :
                 pairs \in ListsOf(V2PairViews), delays \in DelayLists}
        \cup {Document(TRUE, Meta(TRUE, Some(<<"v3">>)), pairs, delays) :
                 pairs \in ListsOf(V3PairViews), delays \in DelayLists}

\* the view a rejected body leaves: no pairs, no delays, an empty meta
EmptyView ==
    [pairs |-> <<>>, delays |-> <<>>,
     meta |-> [schemaVersion |-> "", hoverflyVersion |-> "", timeExported |-> ""]]

\* the v3 view of a document whose pairs are upgraded by the given operator
UpgradedView(body, pairs) ==
    [pairs |-> pairs, delays |-> body.delays,
     meta |-> [schemaVersion |-> "v3", hoverflyVersion |-> body.meta.hoverflyVersion,
               timeExported |-> body.meta.timeExported]]

\* SimulationViewV1.Upgrade
UpgradeV1(body) ==
    UpgradedView(body, [i \in DOMAIN body.pairs |-> UpgradePair(body.pairs[i])])

\* SimulationViewV2.Upgrade
UpgradeV2(body) ==
    UpgradedView(body, [i \in DOMAIN body.pairs |-> UpgradePairV2(body.pairs[i])])

\* the v1 schema: every pair has a request and a response
ValidV1(body) ==
    \A i \in DOMAIN body.pairs : body.pairs[i].hasRequest /\ body.pairs[i].hasResponse

\* variant of NewSimulationViewFromResponseBody: a body without meta is
\* rejected with the message of the missing schema version
NewSimulationViewOneMessage(body) ==
    IF ~body.json THEN [view |-> EmptyView, err |-> <<"Invalid JSON">>]
    ELSE IF ~body.meta.present \/ ~body.meta.schemaVersion.set
    THEN [view |-> EmptyView,
          err |-> <<"Invalid JSON, missing \"meta.schemaVersion\" string">>]
    ELSE IF body.meta.schemaVersion = Some(<<"v1">>)
    THEN IF ValidV1(body)
         THEN [view |-> UpgradeV1(body), err |-> <<>>]
         ELSE [view |-> EmptyView,
               err |-> <<"Invalid v1 simulation: request is required, response is required">>]
    ELSE IF body.meta.schemaVersion = Some(<<"v2">>)
    THEN [view |-> UpgradeV2(body), err |-> <<>>]
    ELSE IF body.meta.schemaVersion = Some(<<"v3">>)
    THEN [view |-> UpgradedView(body, body.pairs), err |-> <<>>]
    ELSE [view |-> EmptyView,
          err |-> <<"Invalid simulation: schema version">> \o body.meta.schemaVersion.v
                    \o <<"is not supported by this version of Hoverfly, you may need to update Hoverfly">>]

\* NewSimulationViewFromResponseBody: the v3 view of the body and no error, or
\* an empty view and the reason of the rejection
NewSimulationViewFromResponseBody(body) ==
    IF ~body.json THEN [view |-> EmptyView, err |-> <<"Invalid JSON">>]
    ELSE IF ~body.meta.present
    THEN [view |-> EmptyView, err |-> <<"Invalid JSON, missing \"meta\" object">>]
    ELSE IF ~body.meta.schemaVersion.set
    THEN [view |-> EmptyView,
          err |-> <<"Invalid JSON, missing \"meta.schemaVersion\" string">>]
    ELSE IF body.meta.schemaVersion = Some(<<"v1">>)
    THEN IF ValidV1(body)
         THEN [view |-> UpgradeV1(body), err |-> <<>>]
         ELSE [view |-> EmptyView,
               err |-> <<"Invalid v1 simulation: request is required, response is required">>]
    ELSE IF body.meta.schemaVersion = Some(<<"v2">>)
    THEN [view |-> UpgradeV2(body), err |-> <<>>]
    ELSE IF body.meta.schemaVersion = Some(<<"v3">>)
    THEN [view |-> UpgradedView(body, body.pairs), err |-> <<>>]
    ELSE [view |-> EmptyView,
          err |-> <<"Invalid simulation: schema version">> \o body.meta.schemaVersion.v
                    \o <<"is not supported by this version of Hoverfly, you may need to update Hoverfly">>]

\* the stored pair of a pair view: its matchers and its response, with the
\* state the view holds, if any
PairOfView(pairView) ==
    [RequestMatcher |->
        [Fields |-> pairView.requestMatcher,
         RequiresState |-> IF "requiresState" \in DOMAIN pairView
                           THEN pairView.requiresState ELSE NilMap],
     Response |->
        [Status |-> pairView.response.status, Body |-> pairView.response.body,
         TransitionsState |-> IF "transitionsState" \in DOMAIN pairView.response
                              THEN pairView.response.transitionsState ELSE NilMap,
         Headers |-> IF "headers" \in DOMAIN pairView.response
                     THEN pairView.response.headers ELSE {}]]

RECURSIVE ImportPairs(_, _)
\* the import of pair views: one AddPair for each, in the order of the document
ImportPairs(pairs, views) ==
    IF views = <<>> THEN pairs
    ELSE ImportPairs(AddPair(pairs, PairOfView(Head(views))), Tail(views))

\* variant of ImportSimulation: the store is wiped before the body is parsed
ImportSimulationWipesFirst(pairs, body) ==
    IF NewSimulationViewFromResponseBody(body).err # <<>>
    THEN DeleteMatchingPairs(pairs)
    ELSE ImportPairs(pairs, NewSimulationViewFromResponseBody(body).view.pairs)

\* the import of a body: a rejected body leaves the store alone, the pairs of
\* an accepted one go through AddPair
ImportSimulation(pairs, body) ==
    IF NewSimulationViewFromResponseBody(body).err # <<>>
    THEN pairs
    ELSE ImportPairs(pairs, NewSimulationViewFromResponseBody(body).view.pairs)

\* a caller parses a body
NewSimulationViewAct(body) ==
    /\ call' = [fn |-> "NewSimulationViewFromResponseBody", body |-> body,
                out |-> NewSimulationViewFromResponseBody(body)]
    /\ UNCHANGED <<storeVars, cfgVars, last, procVars, proxyVars, extVars>>

\* the admin imports a body
ImportSimulationAct(body) ==
    /\ Len(ImportSimulation(matchingPairs, body)) <= MaxCaptured
    /\ matchingPairs' = ImportSimulation(matchingPairs, body)
    /\ call' = [fn |-> "ImportSimulation", out |-> NewSimulationViewFromResponseBody(body)]
    /\ UNCHANGED <<state, RequestCache, cfgVars, last, procVars, proxyVars, extVars>>

\* bodies are parsed
NextViews == \E body \in ImportBodies : NewSimulationViewAct(body)

SpecViews == Init /\ [][NextViews]_vars

\* bodies are imported and the store is wiped
NextImport ==
    \/ \E body \in ImportBodies : ImportSimulationAct(body)
    \/ DeleteMatchingPairsAct

SpecImport == Init /\ [][NextImport]_vars

\* the view of a stored pair in an exported document
PairViewOf(pair) ==
    [requestMatcher |-> pair.RequestMatcher.Fields,
     requiresState |-> pair.RequestMatcher.RequiresState,
     response |-> [status |-> pair.Response.Status, body |-> pair.Response.Body,
                   transitionsState |-> pair.Response.TransitionsState,
                   headers |-> pair.Response.Headers]]

\* the export of the store: a v3 document of the views of its pairs, in order
Export(pairs) ==
    Document(TRUE, Meta(TRUE, Some(<<"v3">>)),
             [i \in DOMAIN pairs |-> PairViewOf(pairs[i])], <<>>)

\* the admin exports the store
ExportAct ==
    /\ call' = [fn |-> "Export", doc |-> Export(matchingPairs), store |-> matchingPairs]
    /\ UNCHANGED <<storeVars, cfgVars, last, procVars, proxyVars, extVars>>

\* the admin imports the document exported last
ImportExportedAct ==
    /\ call.fn = "Export"
    /\ Len(ImportSimulation(matchingPairs, call.doc)) <= MaxSequenced
    /\ matchingPairs' = ImportSimulation(matchingPairs, call.doc)
    /\ call' = [fn |-> "ImportExported"]
    /\ UNCHANGED <<state, RequestCache, cfgVars, last, procVars, proxyVars, extVars>>

\* the store is filled, exported, wiped and filled again from the export; no
\* pair is added between an export and its import
NextRoundTrip ==
    \/ /\ call.fn # "Export"
       /\ \E pair \in InputPairs : AddPairAct(pair, MaxSequenced)
    \/ /\ call.fn # "Export"
       /\ \E pair \in InputPairs : AddPairInSequenceAct(pair, MaxSequenced)
    \/ DeleteMatchingPairsAct
    \/ ExportAct
    \/ ImportExportedAct

SpecRoundTrip == Init /\ [][NextRoundTrip]_vars

(* ---------------------------- query strings ------------------------- *)

\* the keys of query parameters, in their sorting order
QueryKeys == <<"a", "b", "c">>

\* the parameters key=value of a query string
QueryParams == {[key |-> QueryKeys[k], value |-> v] : k \in DOMAIN QueryKeys, v \in {"a", "b"}}

\* the Query field of a RequestDetailsView: nil or a string of up to three
\* parameters joined by &
QueryStrings ==
    {Absent} \cup {Some(q) : q \in ListsOf(QueryParams)}
       \cup {Some(<<x, y, z>>) : x \in QueryParams, y \in QueryParams, z \in QueryParams}

\* the query string with its parameters ordered by key, as url.Values.Encode
\* writes it
SortQueryString(q) ==
    SelectSeq(q, LAMBDA p : p.key = QueryKeys[1])
       \o SelectSeq(q, LAMBDA p : p.key = QueryKeys[2])
       \o SelectSeq(q, LAMBDA p : p.key = QueryKeys[3])

\* RequestDetailsView.GetQuery: the Query field
GetQuery(this) == this.Query

\* a caller asks a request view for its query
GetQueryAct(query) ==
    /\ call' = [fn |-> "GetQuery", this |-> [Query |-> query],
                out |-> GetQuery([Query |-> query])]
    /\ UNCHANGED <<storeVars, cfgVars, last, procVars, proxyVars, extVars>>

NextQuery == \E query \in QueryStrings : GetQueryAct(query)

SpecQuery == Init /\ [][NextQuery]_vars

(* ---------------------------- request templates -------------------- *)

\* the most templates a store holds
MaxTemplates == 2

\* the names of the headers of templates and requests
HeaderNames == {"h1", "h2"}

\* the values of a header of a template and of a request: lists that are not
\* empty, as the JSON of a template and net/http build them
TemplateValues == {<<"x">>, <<"y", "x">>}
RequestValues == {<<"x">>, <<"y">>, <<"x", "y">>}

\* map[string][]string over the given values
HeaderMaps(values) == UNION {[names -> values] : names \in SUBSET HeaderNames}

\* RequestTemplatePayload
RequestTemplatePayloads ==
    {[RequestTemplate |-> [Headers |-> h], Response |-> [Body |-> b]] :
        h \in HeaderMaps(TemplateValues), b \in Bodies}

\* RequestTemplateStore
RequestTemplateStores ==
    UNION {[1..n -> RequestTemplatePayloads] : n \in 0..MaxTemplates}

\* the requests handed to GetPayload
TemplateRequests == {[Header |-> h] : h \in HeaderMaps(RequestValues)}

\* headerMatch: every header of the template is in the request with the same
\* first value
headerMatch(tmplHeaders, reqHeaders) ==
    \A headerName \in DOMAIN tmplHeaders :
        /\ headerName \in DOMAIN reqHeaders
        /\ tmplHeaders[headerName][1] = reqHeaders[headerName][1]

\* variant of GetPayload: the last template to match is returned
GetPayloadLastMatch(this, request) ==
    LET matches == {i \in DOMAIN this :
                       headerMatch(this[i].RequestTemplate.Headers, request.Header)}
    IN  IF matches = {}
        THEN [payload |-> Absent, err |-> "No match found"]
        ELSE [payload |-> Some([Response |->
                                  this[CHOOSE i \in matches : \A j \in matches : j <= i].Response]),
              err |-> "nil"]

\* RequestTemplateStore.GetPayload: the loop returns at the first template to
\* match, and the error after the last
GetPayload(this, request) ==
    LET matches == {i \in DOMAIN this :
                       headerMatch(this[i].RequestTemplate.Headers, request.Header)}
    IN  IF matches = {}
        THEN [payload |-> Absent, err |-> "No match found"]
        ELSE [payload |-> Some([Response |->
                                  this[CHOOSE i \in matches : \A j \in matches : i <= j].Response]),
              err |-> "nil"]

\* the state after construction, with a template store and a request at hand
InitTemplates ==
    /\ matchingPairs = <<>>
    /\ state = EmptyMap
    /\ RequestCache = EmptyCache
    /\ mode = "simulate"
    /\ middleware = FALSE
    /\ last = [op |-> "init", pair |-> NoPair, req |-> "none", response |-> NoResponse,
               err |-> NoError, repeat |-> FALSE]
    /\ IdleProcs
    /\ NoProxy
    /\ InitExt
    /\ call \in {[fn |-> "none", this |-> store, req |-> request] :
                    store \in RequestTemplateStores, request \in TemplateRequests}

\* the store is asked for the payload of the request
GetPayloadAct ==
    /\ call.fn = "none"
    /\ call' = [fn |-> "GetPayload", this |-> call.this, req |-> call.req,
                out |-> GetPayload(call.this, call.req)]
    /\ UNCHANGED <<storeVars, cfgVars, last, procVars, proxyVars, extVars>>

NextTemplates == GetPayloadAct

SpecTemplates == InitTemplates /\ [][NextTemplates]_vars

(* ---------------------------- pure functions -------------------------- *)

\* the state after construction, the history of calls aside
InitExceptCall ==
    /\ matchingPairs = <<>>
    /\ state = EmptyMap
    /\ RequestCache = EmptyCache
    /\ mode = "simulate"
    /\ middleware = FALSE
    /\ last = [op |-> "init", pair |-> NoPair, req |-> "none", response |-> NoResponse,
               err |-> NoError, repeat |-> FALSE]
    /\ IdleProcs
    /\ NoProxy
    /\ InitExt

(* ---------------------------- header names ---------------------------- *)

\* the names of request headers, as net/http canonicalizes them
CanonicalNames == {"H1", "H2"}

\* the names of template headers, as the JSON of a template writes them
WrittenNames == {"h1", "H1", "H2"}

\* strings.ToLower on the header names
ToLower == [name \in CanonicalNames \cup WrittenNames |->
               IF name \in {"h1", "H1"} THEN "h1" ELSE "h2"]

\* map[string][]string over the given names and values
HeaderMapsOver(names, values) == UNION {[some -> values] : some \in SUBSET names}

\* the headers of a template and of a request handed to headerMatch
InitHeaders ==
    /\ InitExceptCall
    /\ call \in {[fn |-> "none", tmplHeaders |-> t, reqHeaders |-> r] :
                    t \in HeaderMapsOver(WrittenNames, TemplateValues),
                    r \in HeaderMapsOver(CanonicalNames, RequestValues)}

\* the headers of the template are compared with those of the request
headerMatchAct ==
    /\ call.fn = "none"
    /\ call' = [fn |-> "headerMatch", tmplHeaders |-> call.tmplHeaders,
                reqHeaders |-> call.reqHeaders,
                out |-> headerMatch(call.tmplHeaders, call.reqHeaders)]
    /\ UNCHANGED <<storeVars, cfgVars, last, procVars, proxyVars, extVars>>

NextHeaders == headerMatchAct

SpecHeaders == InitHeaders /\ [][NextHeaders]_vars

(* ---------------------------- hoverctl: main -------------------------- *)

\* the commands of hoverctl that call Hoverfly and print the outcome
Commands == {"mode status", "mode set", "import", "wipe"}

\* one run of hoverctl: whether the home and the cache directory could be
\* made, the command, whether the hoverfile is there, whether the call to
\* Hoverfly returned an error
Runs ==
    [homeErr : BOOLEAN, cacheErr : BOOLEAN, command : Commands,
     filePresent : BOOLEAN, callErr : BOOLEAN]

\* what a run leaves: the exit status and the lines on the two streams
Exit(status, stdout, stderr) == [status |-> status, stdout |-> stdout, stderr |-> stderr]

\* failAndExit: the message is printed with fmt.Println and the status is 1
failAndExit(err) == Exit(1, <<err>>, <<>>)

\* the line a command prints when its call returned no error
SuccessLine ==
    [command \in Commands |->
        CASE command = "mode status" -> "Hoverfly is set to"
          [] command = "mode set" -> "Hoverfly has been set to"
          [] command = "import" -> "imported successfully"
          [] command = "wipe" -> "Hoverfly has been wiped"]

\* main: a directory that cannot be made ends the run through failAndExit;
\* a command prints the success line or the error with fmt.Println and returns
main(run) ==
    IF run.homeErr THEN failAndExit("home directory")
    ELSE IF run.cacheErr THEN failAndExit("cache directory")
    ELSE IF run.command = "import" /\ ~run.filePresent THEN Exit(0, <<>>, <<>>)
    ELSE IF run.callErr THEN Exit(0, <<"error of the call">>, <<>>)
    ELSE Exit(0, <<SuccessLine[run.command]>>, <<>>)

\* a run of hoverctl is at hand
InitCLI ==
    /\ InitExceptCall
    /\ call \in {[fn |-> "none", run |-> run] : run \in Runs}

\* hoverctl runs
mainAct ==
    /\ call.fn = "none"
    /\ call' = [fn |-> "main", run |-> call.run, out |-> main(call.run)]
    /\ UNCHANGED <<storeVars, cfgVars, last, procVars, proxyVars, extVars>>

NextCLI == mainAct

SpecCLI == InitCLI /\ [][NextCLI]_vars

(* ---------------------------- sequenced groups ------------------------ *)

\* the pairs a recording hands to AddPairInSequence: no required state
RecordedPairs == {Pair(f, NilMap, b, NilMap) : f \in FieldMatchers, b \in Bodies}

\* pairs are sequenced, requests are looked up and the store is wiped
NextGroups ==
    \/ \E pair \in RecordedPairs : AddPairInSequenceAct(pair, MaxSequenced)
    \/ \E request \in Requests : GetResponseAct(request)
    \/ DeleteMatchingPairsAct

SpecGroups == Init /\ [][NextGroups]_vars

(* ---------------------------- maps by address ------------------------- *)

\* number of pairs AddPairInSequence stores while the maps are followed by address
MaxAliased == 3

\* the map at an address, as a value
Deref(h, addr) == IF addr = 0 THEN NilMap ELSE [isNil |-> FALSE, kv |-> h[addr]]

\* the pair a pair object denotes
PairOfRef(h, p) ==
    Pair(p.Fields, Deref(h, p.RequiresState), p.Body, Deref(h, p.TransitionsState))

\* if m == nil { m = map[string]string{} }: the heap after, a new map made if needed
HeapNonNil(h, addr) == IF addr = 0 THEN Append(h, {}) ELSE h

\* if m == nil { m = map[string]string{} }: the address the field holds after
AddrNonNil(h, addr) == IF addr = 0 THEN Len(h) + 1 ELSE addr

\* m[key] = value, written through the address
PutAt(h, addr, key, value) ==
    [h EXCEPT ![addr] = {e \in @ : e[1] # key} \cup {<<key, value>>}]

\* one iteration of the loop over this.matchingPairs; s holds the heap, the saved
\* pairs with updates applied, the caller's pair and the counter
SequenceStep(s, i) ==
    LET savedPair == s.pairs[i]
        h1 == HeapNonNil(s.heap, savedPair.RequiresState)
        rAddr == AddrNonNil(s.heap, savedPair.RequiresState)
        h2 == HeapNonNil(h1, savedPair.TransitionsState)
        tAddr == AddrNonNil(h1, savedPair.TransitionsState)
        h3 == HeapNonNil(h2, s.pair.RequiresState)
        pAddr == AddrNonNil(h2, s.pair.RequiresState)
        sequenceState == Get(Deref(h3, rAddr), "sequence")
        sequence == IF sequenceState = "" THEN "1" ELSE sequenceState
        nextSequence == IF sequenceState = "" THEN "2"
                        ELSE Itoa(Atoi(sequenceState) + 1)
        h4 == PutAt(h3, rAddr, "sequence", sequence)
        h5 == PutAt(h4, tAddr, "sequence", nextSequence)
    IN  IF savedPair.Fields = s.pair.Fields
        THEN [heap |-> h5,
              pairs |-> [s.pairs EXCEPT ![i] = [@ EXCEPT !.RequiresState = rAddr,
                                                        !.TransitionsState = tAddr]],
              pair |-> [s.pair EXCEPT !.RequiresState = pAddr],
              counter |-> s.counter + 1]
        ELSE s

RECURSIVE SequenceLoop(_, _)
\* the loop over this.matchingPairs, from index i on
SequenceLoop(s, i) ==
    IF i > Len(s.pairs) THEN s ELSE SequenceLoop(SequenceStep(s, i), i + 1)

\* AddPairInSequence on a pair object: the heap, the stored pairs and the caller's
\* pair after the call; the stored copy of *pair holds the addresses pair holds
AddPairInSequenceRef(h, pairs, pair) ==
    LET s == SequenceLoop([heap |-> h, pairs |-> pairs, pair |-> pair, counter |-> 0], 1)
    IN  [heap |-> IF s.counter # 0
                  THEN PutAt(s.heap, s.pair.RequiresState, "sequence", Itoa(s.counter + 1))
                  ELSE s.heap,
         pairs |-> Append(s.pairs, s.pair),
         pair |-> s.pair]

\* the simulation as values: every stored pair with the maps its addresses name
DerefPairs(h, pairs) == [i \in 1..Len(pairs) |-> PairOfRef(h, pairs[i])]

\* the caller makes a new pair, with no state required and none set
NewPairAct(o, fields, body) ==
    /\ args' = [args EXCEPT ![o] = RefPair(fields, 0, body, 0)]
    /\ UNCHANGED <<heap, refPairs>>
    /\ UNCHANGED <<storeVars, cfgVars, last, procVars, proxyVars, call>>
    /\ UNCHANGED <<authVars, boltVars, pidVars>>

\* the caller passes the pair object o to AddPairInSequence
AddPairInSequenceRefAct(o) ==
    /\ Len(refPairs) < MaxAliased
    /\ LET out == AddPairInSequenceRef(heap, refPairs, args[o])
       IN  /\ heap' = out.heap
           /\ refPairs' = out.pairs
           /\ args' = [args EXCEPT ![o] = out.pair]
           /\ matchingPairs' = DerefPairs(out.heap, out.pairs)
    /\ state' = SequenceStateAfter(matchingPairs, PairOfRef(heap, args[o]), state)
    /\ last' = Op("AddPairInSequence", PairOfRef(heap, args[o]), "none", NoResponse,
                  NoError)
    /\ UNCHANGED RequestCache
    /\ UNCHANGED <<cfgVars, procVars, proxyVars, call>>
    /\ UNCHANGED <<authVars, boltVars, pidVars>>

\* the caller writes pair.RequestMatcher.RequiresState["sequence"] of its own pair
MutateArgAct(o, value) ==
    /\ args[o].RequiresState # 0
    /\ heap' = PutAt(heap, args[o].RequiresState, "sequence", value)
    /\ matchingPairs' = DerefPairs(heap', refPairs)
    /\ UNCHANGED <<refPairs, args>>
    /\ UNCHANGED <<state, RequestCache, cfgVars, last, procVars, proxyVars, call>>
    /\ UNCHANGED <<authVars, boltVars, pidVars>>

NextAliasing ==
    \/ \E o \in PairObjects, f \in FieldMatchers, b \in Bodies : NewPairAct(o, f, b)
    \/ \E o \in PairObjects : AddPairInSequenceRefAct(o)
    \/ \E o \in PairObjects, value \in {"1", "7"} : MutateArgAct(o, value)

SpecAliasing == Init /\ [][NextAliasing]_vars

(* ---------------------------- authentication -------------------------- *)

\* the strings a request carries in its Authorization header
TokenStrings == {"t1", "t2"}

\* what jwt.ParseFromRequest finds: no token, one that does not parse, one signed
\* with a method that is not HMAC, one whose signature or claims are bad, a good one
TokenKinds == {"absent", "malformed", "notHMAC", "invalid", "good"}

AuthRequests == [Authorization : TokenStrings, kind : TokenKinds]

\* jwt.ParseFromRequest with the key function of RequireTokenAuthentication: the
\* key function refuses every signing method but HMAC
ParseFromRequest(request) ==
    [err |-> request.kind # "good", Valid |-> request.kind = "good"]

\* the outcomes of a lookup in the backend: it answers, or it fails and returns
\* some boolean next to its error
Lookups == {[fails |-> FALSE, value |-> FALSE]} \cup [fails : {TRUE}, value : BOOLEAN]

\* AuthBackend.IsTokenBlacklisted
IsTokenBlacklisted(tokens, token, lookup) ==
    IF lookup.fails
    THEN [blacklisted |-> lookup.value, err |-> TRUE]
    ELSE [blacklisted |-> token \in tokens, err |-> FALSE]

\* JWTAuthenticationBackend.IsInBlacklist: the error of the lookup is dropped
IsInBlacklist(tokens, token, lookup) ==
    IsTokenBlacklisted(tokens, token, lookup).blacklisted

\* AuthHandler.RequireTokenAuthentication: whether next runs, and the status written
RequireTokenAuthentication(enabled, tokens, request, lookup) ==
    LET token == ParseFromRequest(request)
    IN  IF ~enabled
        THEN [next |-> TRUE, status |-> 200]
        ELSE IF /\ ~token.err
                /\ token.Valid
                /\ ~IsInBlacklist(tokens, request.Authorization, lookup)
             THEN [next |-> TRUE, status |-> 200]
             ELSE [next |-> FALSE, status |-> 401]

\* the handler is made with authentication on or off
NewAuthHandlerAct(enabled) ==
    /\ Enabled' = enabled
    /\ UNCHANGED blacklist
    /\ UNCHANGED <<storeVars, cfgVars, last, procVars, proxyVars, call>>
    /\ UNCHANGED <<aliasVars, boltVars, pidVars>>

\* JWTAuthenticationBackend.Logout: InvalidateToken stores the token, or fails
LogoutAct(token, fails) ==
    /\ blacklist' = IF fails THEN blacklist ELSE blacklist \cup {token}
    /\ call' = [fn |-> "Logout", token |-> token, err |-> fails]
    /\ UNCHANGED Enabled
    /\ UNCHANGED <<storeVars, cfgVars, last, procVars, proxyVars>>
    /\ UNCHANGED <<aliasVars, boltVars, pidVars>>

\* a request for a protected handler arrives
RequireTokenAuthenticationAct(request, lookup) ==
    /\ call' = [fn |-> "RequireTokenAuthentication", request |-> request,
                lookup |-> lookup, enabled |-> Enabled, invalidated |-> blacklist,
                out |-> RequireTokenAuthentication(Enabled, blacklist, request, lookup)]
    /\ UNCHANGED authVars
    /\ UNCHANGED <<storeVars, cfgVars, last, procVars, proxyVars>>
    /\ UNCHANGED <<aliasVars, boltVars, pidVars>>

NextAuth ==
    \/ \E enabled \in BOOLEAN : NewAuthHandlerAct(enabled)
    \/ \E token \in TokenStrings, fails \in BOOLEAN : LogoutAct(token, fails)
    \/ \E request \in AuthRequests, lookup \in Lookups :
          RequireTokenAuthenticationAct(request, lookup)

SpecAuth == Init /\ [][NextAuth]_vars

(* ---------------------------- BoltAuth -------------------------------- *)

\* number of frames of BoltAuth.Delete the goroutine's stack holds
MaxDepth == 6

BoltKeys == {"k1", "k2"}

BoltValues == {"v1", "v2"}

\* bucket.Put(key, value)
BucketPut(b, key, value) == {e \in b : e[1] # key} \cup {<<key, value>>}

\* BoltAuth.SetValue: the transaction commits
SetValueAct(key, value) ==
    /\ del.pc = "idle"
    /\ bucket' = BucketPut(bucket, key, value)
    /\ UNCHANGED del
    /\ UNCHANGED <<storeVars, cfgVars, last, procVars, proxyVars, call>>
    /\ UNCHANGED <<aliasVars, authVars, pidVars>>

\* BoltAuth.Delete(key) is called
DeleteCallAct(key) ==
    /\ del.pc = "idle"
    /\ del' = [pc |-> "running", key |-> key, depth |-> 1]
    /\ UNCHANGED bucket
    /\ UNCHANGED <<storeVars, cfgVars, last, procVars, proxyVars, call>>
    /\ UNCHANGED <<aliasVars, authVars, pidVars>>

\* the body of Delete: return b.Delete(key), one more frame of the same method
DeleteAct ==
    /\ del.pc = "running"
    /\ del.depth < MaxDepth
    /\ del' = [del EXCEPT !.depth = @ + 1]
    /\ UNCHANGED bucket
    /\ UNCHANGED <<storeVars, cfgVars, last, procVars, proxyVars, call>>
    /\ UNCHANGED <<aliasVars, authVars, pidVars>>

\* the stack cannot grow any more: the runtime ends the process, no frame has
\* returned and none will
StackOverflowAct ==
    /\ del.pc = "running"
    /\ del.depth = MaxDepth
    /\ del' = [del EXCEPT !.pc = "crashed"]
    /\ UNCHANGED bucket
    /\ UNCHANGED <<storeVars, cfgVars, last, procVars, proxyVars, call>>
    /\ UNCHANGED <<aliasVars, authVars, pidVars>>

NextBolt ==
    \/ \E key \in BoltKeys, value \in BoltValues : SetValueAct(key, value)
    \/ \E key \in BoltKeys : DeleteCallAct(key)
    \/ DeleteAct
    \/ StackOverflowAct

SpecBolt == Init /\ [][NextBolt]_vars

\* the goroutine inside Delete keeps running
FairSpecBolt == SpecBolt /\ WF_vars(DeleteAct) /\ WF_vars(StackOverflowAct)

(* ---------------------------- ImportPayloads -------------------------- *)

\* number of payloads in one import
MaxPayloads == 3

\* a payload: its request, its response, the ID it arrives with, and whether
\* gob can encode it
ImportedPayloads ==
    [Request : Requests, Body : Bodies, ID : {"", "old"}, encodes : BOOLEAN]

\* RequestContainer.Hash: the key of a request
Hash(request) == <<"hash", request>>

\* Payload.Encode of a payload that encodes: the bytes hold the payload
Encode(pl) == [ID |-> pl.ID, Request |-> pl.Request, Body |-> pl.Body]

\* the lists of at most n payloads
RECURSIVE PayloadLists(_)
PayloadLists(n) ==
    IF n = 0 THEN {<<>>}
    ELSE PayloadLists(n - 1)
         \cup {Append(l, pl) : l \in {m \in PayloadLists(n - 1) : Len(m) = n - 1},
                               pl \in ImportedPayloads}

\* the caches an import starts from: empty, or holding an entry for rA
ImportCaches ==
    {{}, {<<Hash("rA"), [ID |-> Hash("rA"), Request |-> "rA", Body |-> "b0"]>>}}

\* variant of CacheSet: a key that is in the cache keeps its entry
CacheSetIfAbsent(cache, key, bts) ==
    IF \E e \in cache : e[1] = key THEN cache ELSE cache \cup {<<key, bts>>}

\* Cache.Set: insert, or replace the entry of the key
CacheSet(cache, key, bts) == {e \in cache : e[1] # key} \cup {<<key, bts>>}

\* one iteration of the loop of ImportPayloads
ImportPayload(s, pl) ==
    LET key == Hash(pl.Request)
        withID == [pl EXCEPT !.ID = key]
    IN  IF ~withID.encodes
        THEN [s EXCEPT !.failed = @ + 1]
        ELSE [s EXCEPT !.cache = CacheSet(@, key, Encode(withID)),
                       !.success = @ + 1]

RECURSIVE ImportLoop(_, _, _)
\* the loop of ImportPayloads, from payload i on
ImportLoop(s, payloads, i) ==
    IF i > Len(payloads) THEN s
    ELSE ImportLoop(ImportPayload(s, payloads[i]), payloads, i + 1)

\* DBClient.ImportPayloads: the cache after, the two counts it logs, its error
ImportPayloads(cache, payloads) ==
    IF Len(payloads) > 0
    THEN ImportLoop([cache |-> cache, success |-> 0, failed |-> 0, err |-> "nil"],
                    payloads, 1)
    ELSE [cache |-> cache, success |-> 0, failed |-> 0,
          err |-> "Bad request. Nothing to import!"]

InitPayloads ==
    /\ InitExceptCall
    /\ call \in {[fn |-> "none", cache |-> cache, payloads |-> payloads] :
                    cache \in ImportCaches, payloads \in PayloadLists(MaxPayloads)}

\* the payloads are imported
ImportPayloadsAct ==
    /\ call.fn = "none"
    /\ call' = [fn |-> "ImportPayloads", cache |-> call.cache,
                payloads |-> call.payloads,
                out |-> ImportPayloads(call.cache, call.payloads)]
    /\ UNCHANGED <<storeVars, cfgVars, last, procVars, proxyVars, extVars>>

NextPayloads == ImportPayloadsAct

SpecPayloads == InitPayloads /\ [][NextPayloads]_vars

(* ---------------------------- hoverctl: start and stop ---------------- *)

\* number of Hoverfly processes hoverctl spawns
MaxSpawned == 6

\* os.Stat of the PID file: nil, an error that os.IsNotExist accepts, another error
Stat(file, denied) ==
    IF denied THEN "error" ELSE IF file.exists THEN "nil" ELSE "notExist"

\* os.Process.Kill: the signal reaches a process that runs, if the caller may
\* signal it
Kill(procs, pid, permitted) == pid \in procs /\ permitted

\* variant of startHandler: the PID file is not looked at
startHandlerNoStat(file, procs, pid, denied, started) ==
    IF started
    THEN [pidFile |-> [exists |-> TRUE, content |-> Itoa(pid)],
          running |-> procs \cup {pid},
          out |-> "Hoverfly is now running"]
    ELSE [pidFile |-> file, running |-> procs, out |-> "panic"]

\* startHandler, for the process id pid a started process gets; cmd.Start that
\* fails leaves cmd.Process nil and reading its Pid panics
startHandler(file, procs, pid, denied, started) ==
    IF Stat(file, denied) = "notExist"
    THEN IF started
         THEN [pidFile |-> [exists |-> TRUE, content |-> Itoa(pid)],
               running |-> procs \cup {pid},
               out |-> "Hoverfly is now running"]
         ELSE [pidFile |-> file, running |-> procs, out |-> "panic"]
    ELSE IF Stat(file, denied) = "error"
         THEN [pidFile |-> file, running |-> procs, out |-> ""]
         ELSE [pidFile |-> file, running |-> procs, out |-> "Hoverfly is already running"]

\* stopHandler
stopHandler(file, procs, denied, permitted) ==
    IF Stat(file, denied) = "notExist"
    THEN [pidFile |-> file, running |-> procs, out |-> "Hoverfly is not running"]
    ELSE IF Stat(file, denied) = "error"
         THEN [pidFile |-> file, running |-> procs, out |-> ""]
         ELSE LET pid == Atoi(file.content)
              IN  IF Kill(procs, pid, permitted)
                  THEN [pidFile |-> NoFile, running |-> procs \ {pid},
                        out |-> "Hoverfly has been killed"]
                  ELSE [pidFile |-> file, running |-> procs,
                        out |-> "Failed to kill Hoverfly"]

\* hoverctl start
startAct(denied, started) ==
    /\ nextPid <= MaxSpawned
    /\ LET out == startHandler(pidFile, running, nextPid, denied, started)
       IN  /\ pidFile' = out.pidFile
           /\ running' = out.running
           /\ nextPid' = IF nextPid \in out.running THEN nextPid + 1 ELSE nextPid
           /\ call' = [fn |-> "start", file |-> pidFile, procs |-> running,
                       out |-> out]
    /\ UNCHANGED <<storeVars, cfgVars, last, procVars, proxyVars>>
    /\ UNCHANGED <<aliasVars, authVars, boltVars>>

\* hoverctl stop
stopAct(denied, permitted) ==
    /\ LET out == stopHandler(pidFile, running, denied, permitted)
       IN  /\ pidFile' = out.pidFile
           /\ running' = out.running
           /\ call' = [fn |-> "stop", file |-> pidFile, procs |-> running,
                       out |-> out]
    /\ UNCHANGED nextPid
    /\ UNCHANGED <<storeVars, cfgVars, last, procVars, proxyVars>>
    /\ UNCHANGED <<aliasVars, authVars, boltVars>>

\* a Hoverfly process ends on its own
ProcessExitAct(pid) ==
    /\ pid \in running
    /\ running' = running \ {pid}
    /\ UNCHANGED <<pidFile, nextPid>>
    /\ UNCHANGED <<storeVars, cfgVars, last, procVars, proxyVars, call>>
    /\ UNCHANGED <<aliasVars, authVars, boltVars>>

NextPid ==
    \/ \E denied \in BOOLEAN, started \in BOOLEAN : startAct(denied, started)
    \/ \E denied \in BOOLEAN, permitted \in BOOLEAN : stopAct(denied, permitted)
    \/ \E pid \in 1..MaxSpawned : ProcessExitAct(pid)

SpecPid == Init /\ [][NextPid]_vars

(* ---------------------------- the upstream HTTP client ---------------- *)

\* Cfg.UpstreamProxy: none, a URL, a string url.Parse refuses
UpstreamProxies == {"", "http://proxy:8080", ":proxy"}

\* the certificates an upstream presents
Certificates == {"trusted", "selfSigned", "expired", "otherHost"}

Schemes == {"http", "https"}

\* what the upstream answers once the connection stands
UpstreamStatuses == {200, 302, 500}

\* GetDefaultHoverflyHTTPClient: the transport of the client it returns, or the
\* process ends in log.Fatalf
GetDefaultHoverflyHTTPClient(tlsVerification, upstreamProxy) ==
    IF upstreamProxy = ":proxy"
    THEN [fatal |-> TRUE, Proxy |-> "", InsecureSkipVerify |-> FALSE]
    ELSE [fatal |-> FALSE, Proxy |-> upstreamProxy,
          InsecureSkipVerify |-> tlsVerification]

\* crypto/tls on the client side: the certificate chain and the host name are
\* verified unless InsecureSkipVerify is set
Handshake(client, scheme, certificate) ==
    \/ scheme = "http"
    \/ client.InsecureSkipVerify
    \/ certificate = "trusted"

\* the status the client returns for one request, 0 when the connection fails;
\* CheckRedirect returns http.ErrUseLastResponse, a redirect is returned as it is
ClientDo(client, scheme, certificate, status) ==
    IF Handshake(client, scheme, certificate) THEN status ELSE 0

InitClient ==
    /\ InitExceptCall
    /\ call \in {[fn |-> "none", tlsVerification |-> t, upstreamProxy |-> u,
                  scheme |-> s, certificate |-> c, status |-> st] :
                    t \in BOOLEAN, u \in UpstreamProxies, s \in Schemes,
                    c \in Certificates, st \in UpstreamStatuses}

\* the client is made from the configuration and sends one request upstream
GetDefaultHoverflyHTTPClientAct ==
    /\ call.fn = "none"
    /\ LET client == GetDefaultHoverflyHTTPClient(call.tlsVerification,
                                                  call.upstreamProxy)
       IN  call' = [fn |-> "GetDefaultHoverflyHTTPClient",
                    tlsVerification |-> call.tlsVerification,
                    upstreamProxy |-> call.upstreamProxy,
                    scheme |-> call.scheme, certificate |-> call.certificate,
                    status |-> call.status, client |-> client,
                    out |-> IF client.fatal THEN 0
                            ELSE ClientDo(client, call.scheme, call.certificate,
                                          call.status)]
    /\ UNCHANGED <<storeVars, cfgVars, last, procVars, proxyVars, extVars>>

NextClient == GetDefaultHoverflyHTTPClientAct

SpecClient == InitClient /\ [][NextClient]_vars

(* ---------------------------- properties: the modes -------------------- *)

\* the request's trace holds that many entries of that kind
CountEvents(p, kind) == Cardinality({i \in 1..Len(trace[p]) : trace[p][i][1] = kind})

\* the request of the first entry of that kind in the request's trace
RequestOf(p, kind) == trace[p][FirstEvent(p, kind)][2]

\* the matcher Save builds for a request
SavedMatcher(request) == [Fields |-> ExactMatcherOf(request), RequiresState |-> NilMap]

\* indices of the stored pairs with that matcher
StoredWith(pairs, matcher) == {i \in 1..Len(pairs) : pairs[i].RequestMatcher = matcher}

\* the step is the return of Save to the capture request
SaveReturns(p) == pc[p] \in {"save", "store"} /\ pc'[p] = "delay"

\* C16: a capture request whose upstream cannot be reached has a non-nil
\* error and a 502 response whose body contains the text of the upstream error,
\* Save is not called for it and the step leaves the stored pairs alone.
C16_CaptureUpstreamError ==
    [][\A p \in Procs :
          (/\ handler'[p] = "CaptureMode"
           /\ \E i \in 1..Len(trace'[p]) : trace'[p][i][1] = "unreachable")
          => /\ result'[p].err # NoError
             /\ result'[p].response.Status = 502
             /\ Contains(result'[p].response.Body, UpstreamError.Description)
             /\ Contains(result'[p].response.Body, ForwardingMessage)
             /\ pc'[p] \in {"delay", "done"}
             /\ \A i \in 1..Len(trace'[p]) : trace'[p][i][1] # "AddPair"
             /\ matchingPairs' = matchingPairs]_vars

\* C16 witness: a capture request that could not reach the upstream is about
\* to return its 502 response, and the store holds what it held.
C16_Witness ==
    \E p \in Procs :
        /\ pc[p] = "done"
        /\ handler[p] = "CaptureMode"
        /\ HasEvent(p, "unreachable")
        /\ result[p].response.Status = 502
        /\ result[p].err = UpstreamError
        /\ StoredWith(matchingPairs, SavedMatcher(captured[p])) = {}

Redirected(p) ==
    /\ handler[p] \in {"CaptureMode", "ModifyMode"}
    /\ HasEvent(p, "upstream")
    /\ ~HasEvent(p, "unreachable")
    /\ Upstream(RequestOf(p, "upstream")).Status \in RedirectStatuses

C20_SynthesizeNeverForwards ==
    \A p \in Procs :
        handler[p] = "SynthesizeMode"
        => /\ ~HasEvent(p, "upstream")
           /\ HasEvent(p, "middleware")
                 => /\ result[p].err = NoError
                    /\ result[p].response = MiddlewareResponse(NoResponse)
           /\ ~HasEvent(p, "middleware")
                 => /\ result[p].err # NoError
                    /\ result[p].response.Status = 503

\* C20 witness: a synthesize request is about to return the response of the
\* middleware although the upstream would have answered it otherwise.
C20_Witness ==
    \E p \in Procs :
        /\ pc[p] = "done"
        /\ handler[p] = "SynthesizeMode"
        /\ result[p].response.Body = "CHANGED"
        /\ Upstream(req[p]).Body # "CHANGED"
        /\ ~HasEvent(p, "upstream")

(* ---------------------------- properties: the middleware executor ------ *)

\* C21: a call of the remote middleware that did not get a 200 with a JSON
\* payload returns the payload it was given and an error; a 200 with a JSON
\* payload returns that payload and no error.
C21_RemoteFailureKeepsPayload ==
    call.fn = "ExecuteMiddlewareRemotely"
    => IF call.reply.reached /\ call.reply.status = 200 /\ call.reply.body.kind = "json"
       THEN /\ call.out.err = "nil"
            /\ call.out.payload.Request = call.reply.body.request
            /\ call.out.payload.Response = call.reply.body.response
       ELSE /\ call.out.err # "nil"
            /\ call.out.payload = call.payload

\* C21 witness: the remote middleware answered 404 with a JSON payload other
\* than the one sent, and the caller kept its payload and got the error.
C21_Witness ==
    /\ call.fn = "ExecuteMiddlewareRemotely"
    /\ call.reply.status = 404
    /\ call.reply.body.kind = "json"
    /\ call.reply.body.response # call.payload.Response
    /\ call.out.payload = call.payload
    /\ call.out.err = "Error when communicating with remote middleware"

\* C22: a call of the local middleware whose process exits non-zero, or whose
\* output is no JSON payload, returns the payload it was given and an error.
C22_LocalFailureKeepsPayload ==
    (/\ call.fn = "ExecuteMiddlewareLocally"
     /\ (call.run.exit # 0 \/ call.run.stdout.kind # "json"))
    => /\ call.out.payload = call.payload
       /\ call.out.err # "nil"

\* C23: every response the pipeline is about to return to the client carries
\* the header 'Hoverfly: Was-Here'.
C23_EveryResponseWasHere ==
    \A p \in Procs : pc[p] = "done" => WasHereHeader \in result[p].response.Headers

(* ---------------------------- properties: import and export ------------ *)

\* the last call parsed a body
Parsed == call.fn = "NewSimulationViewFromResponseBody"

RejectionCauses ==
    {<<"Invalid JSON">>,
     <<"Invalid JSON, missing \"meta\" object">>,
     <<"Invalid JSON, missing \"meta.schemaVersion\" string">>,
     <<"Invalid v1 simulation: request is required, response is required">>}

\* C25: an import that is rejected for invalid JSON, a missing meta, a missing
\* schema version or an invalid v1 pair parsed the body to a view without pairs
\* and without delays, and the stored pairs after it are the pairs before it.
C25_RejectedImportChangesNothing ==
    [][(/\ call' # call
        /\ call'.fn = "ImportSimulation"
        /\ call'.out.err \in RejectionCauses)
       => /\ call'.out.view.pairs = <<>>
          /\ call'.out.view.delays = <<>>
          /\ matchingPairs' = matchingPairs]_vars

\* C25 witness: a v1 body with a pair that has no request was rejected while
\* the store held the pairs of an earlier import.
C25_Witness ==
    /\ call.fn = "ImportSimulation"
    /\ call.out.err = <<"Invalid v1 simulation: request is required, response is required">>
    /\ call.out.view = EmptyView
    /\ Len(matchingPairs) = MaxCaptured

\* the last call parsed a v1 body that was accepted
ParsedV1 ==
    /\ Parsed
    /\ call.body.json
    /\ call.body.meta.present
    /\ call.body.meta.schemaVersion = Some(<<"v1">>)
    /\ call.out.err = <<>>

\* the matcher a v1 request of that type gets for a value
MatcherOfType(requestType, v) ==
    Some([matcher |-> IF requestType = Some(<<"template">>) THEN "globMatch" ELSE "exactMatch",
          value |-> v])

\* the pairs keep their number and order, absent fields stay unset, the
\* versions and the time are kept and the schema version is v3
UpgradeKeepsShape ==
    /\ Len(call.out.view.pairs) = Len(call.body.pairs)
    /\ \A i \in DOMAIN call.body.pairs :
          /\ call.out.view.pairs[i].response = call.body.pairs[i].response
          /\ \A f \in ScalarFields :
                ~call.body.pairs[i].request.fields[f].set
                   => call.out.view.pairs[i].requestMatcher[f] = Absent
    /\ call.out.view.meta.schemaVersion = "v3"
    /\ call.out.view.meta.hoverflyVersion = call.body.meta.hoverflyVersion
    /\ call.out.view.meta.timeExported = call.body.meta.timeExported

\* C26 as stated: the upgrade of a v1 body keeps number and order of the
\* pairs, turns every field that is set into the exact matcher (the glob matcher
\* for a template) of its value, leaves absent fields unset, keeps versions and
\* time and sets the schema version to v3.
C26_UpgradeWrapsValues ==
    ParsedV1
    => /\ UpgradeKeepsShape
       /\ \A i \in DOMAIN call.body.pairs : \A f \in ScalarFields :
             call.body.pairs[i].request.fields[f].set
                => call.out.view.pairs[i].requestMatcher[f] =
                      MatcherOfType(call.body.pairs[i].request.requestType,
                                    call.body.pairs[i].request.fields[f].v)

\* C26 amended: as stated, but the matcher of the query holds the
\* percent-decoded query, not the query as written.
C26_UpgradeDecodesQuery ==
    ParsedV1
    => /\ UpgradeKeepsShape
       /\ \A i \in DOMAIN call.body.pairs : \A f \in ScalarFields :
             call.body.pairs[i].request.fields[f].set
                => call.out.view.pairs[i].requestMatcher[f] =
                      MatcherOfType(call.body.pairs[i].request.requestType,
                                    IF f = "query"
                                    THEN [k \in DOMAIN call.body.pairs[i].request.fields[f].v |->
                                            IF call.body.pairs[i].request.fields[f].v[k] = "%20"
                                            THEN " "
                                            ELSE call.body.pairs[i].request.fields[f].v[k]]
                                    ELSE call.body.pairs[i].request.fields[f].v)

\* C26 witness: a v1 body of a recording with an escaped query and a template
\* was upgraded to an exact matcher of the decoded query and to glob matchers.
C26_Witness ==
    /\ ParsedV1
    /\ Len(call.body.pairs) = 2
    /\ call.body.pairs[1].request = V1Request(Some(<<"recording">>), ScalarFields, EscapedQuery)
    /\ call.body.pairs[2].request.requestType = Some(<<"template">>)
    /\ call.out.view.pairs[1].requestMatcher["query"] =
          Some([matcher |-> "exactMatch", value |-> <<"q=a", " ", "b">>])
    /\ call.out.view.pairs[2].requestMatcher["query"].v.matcher = "globMatch"

\* C27: the import of an exported document into the wiped store yields the
\* pairs that were exported, in their order, also when two of them have
\* identical matchers.
C27_RoundTrip ==
    [][(call.fn = "Export" /\ call'.fn = "ImportExported" /\ matchingPairs = <<>>)
          => matchingPairs' = call.store]_vars

(* ---------------------------- properties: query strings --------------- *)

\* C28: GetQuery returns the query with its parameters sorted by key, and
\* nil for a nil query.
C28_GetQuerySorts ==
    call.fn = "GetQuery"
    => call.out = IF call.this.Query.set
                  THEN Some(SortQueryString(call.this.Query.v))
                  ELSE Absent

(* ---------------------------- properties: the pair lifecycle ---------- *)

\* the entries of a state map other than the sequence entry
OtherEntries(map) == {e \in map.kv : e[1] # "sequence"}

\* two pairs differ at most in the sequence entry of the required state and
\* of the state transitions
SameButSequence(before, after) ==
    /\ after.RequestMatcher.Fields = before.RequestMatcher.Fields
    /\ OtherEntries(after.RequestMatcher.RequiresState)
          = OtherEntries(before.RequestMatcher.RequiresState)
    /\ after.Response.Status = before.Response.Status
    /\ after.Response.Body = before.Response.Body
    /\ after.Response.Headers = before.Response.Headers
    /\ OtherEntries(after.Response.TransitionsState)
          = OtherEntries(before.Response.TransitionsState)

\* C29: the store gets shorter only by DeleteMatchingPairs, which leaves
\* no pair; AddPair leaves every stored pair as it is and where it is;
\* AddPairInSequence leaves every stored pair where it is and changes at most
\* the sequence entries of the pairs whose field matchers are those of the
\* inserted pair.
C29_PairLifecycleFrame ==
    [][/\ Len(matchingPairs') < Len(matchingPairs)
            => last'.op = "DeleteMatchingPairs"
       /\ last'.op = "DeleteMatchingPairs" => matchingPairs' = <<>>
       /\ last'.op = "AddPair"
            => /\ Len(matchingPairs') >= Len(matchingPairs)
               /\ \A i \in DOMAIN matchingPairs : matchingPairs'[i] = matchingPairs[i]
       /\ last'.op = "AddPairInSequence"
            => /\ Len(matchingPairs') = Len(matchingPairs) + 1
               /\ \A i \in DOMAIN matchingPairs :
                     /\ SameButSequence(matchingPairs[i], matchingPairs'[i])
                     /\ matchingPairs'[i] # matchingPairs[i]
                          => matchingPairs[i].RequestMatcher.Fields
                                = last'.pair.RequestMatcher.Fields]_vars

\* C29 witness: the store holds a pair with a user's required state that
\* AddPairInSequence has rewritten, after a pair of other field matchers that
\* it left alone.
C29_Witness ==
    /\ last.op = "AddPairInSequence"
    /\ Len(matchingPairs) = 3
    /\ matchingPairs[1].RequestMatcher.Fields # last.pair.RequestMatcher.Fields
    /\ matchingPairs[1].RequestMatcher.RequiresState = NilMap
    /\ matchingPairs[2].RequestMatcher.Fields = last.pair.RequestMatcher.Fields
    /\ matchingPairs[2].RequestMatcher.RequiresState
          = Put(UserMap, "sequence", "1")
    /\ matchingPairs[2].Response.TransitionsState = Put(EmptyMap, "sequence", "2")

(* ---------------------------- properties: request templates ----------- *)

\* the templates of the last call whose headers are all in the request with
\* the same first value
MatchingTemplates ==
    {i \in DOMAIN call.this :
        \A name \in DOMAIN call.this[i].RequestTemplate.Headers :
            /\ name \in DOMAIN call.req.Header
            /\ call.this[i].RequestTemplate.Headers[name][1] = call.req.Header[name][1]}

\* C30: GetPayload returns the response of the matching template of the
\* lowest index and no error, and the error "No match found" with no payload
\* exactly when no template matches.
C30_FirstMatchWins ==
    call.fn = "GetPayload"
    => /\ MatchingTemplates # {}
            => /\ call.out.err = "nil"
               /\ call.out.payload.set
               /\ \E i \in MatchingTemplates :
                     /\ \A j \in MatchingTemplates : i <= j
                     /\ call.out.payload.v.Response = call.this[i].Response
       /\ MatchingTemplates = {}
            => /\ call.out.err = "No match found"
               /\ ~call.out.payload.set

\* C30 witness: two templates with different responses match a request, the
\* first one on the first of two values of a header, and the response of the
\* first is returned.
C30_Witness ==
    /\ call.fn = "GetPayload"
    /\ MatchingTemplates = {1, 2}
    /\ call.req.Header = [name \in {"h1"} |-> <<"x", "y">>]
    /\ call.this[1].RequestTemplate.Headers = [name \in {"h1"} |-> <<"x">>]
    /\ call.this[1].Response.Body = "b1"
    /\ call.this[2].Response.Body = "b2"
    /\ call.out.payload.set
    /\ call.out.payload.v.Response.Body = "b1"

(* ---------------------------- properties: header names ---------------- *)

\* C31: a template matches a request that has, for every header of the
\* template, a header whose name is the same up to letter case and whose first
\* value is equal.
C31_HeaderNamesIgnoreCase ==
    (/\ call.fn = "headerMatch"
     /\ \A name \in DOMAIN call.tmplHeaders :
           \E other \in DOMAIN call.reqHeaders :
               /\ ToLower[other] = ToLower[name]
               /\ call.reqHeaders[other][1] = call.tmplHeaders[name][1])
    => call.out

(* ---------------------------- properties: hoverctl -------------------- *)

\* C32: a run of mode, import or wipe whose call to Hoverfly returned an
\* error ends with a status other than 0 and its message on standard error; a
\* run whose call returned no error ends with status 0.
C32_ExitStatus ==
    (/\ call.fn = "main"
     /\ ~call.run.homeErr
     /\ ~call.run.cacheErr
     /\ call.run.command = "import" => call.run.filePresent)
    => IF call.run.callErr
       THEN call.out.status # 0 /\ call.out.stderr # <<>>
       ELSE call.out.status = 0

(* ---------------------------- properties: capture with middleware ----- *)

\* the request the middleware script makes of the request of the client
Rewritten(p) == IF req[p] = "rA" THEN ModifiedRequest ELSE req[p]

\* C33: when a capture request that passed the middleware appends a pair
\* to the store, the pair has the exact matcher of the request as the middleware
\* rewrote it and the response of the upstream to that request, not a response
\* rewritten by the middleware.
C33_CaptureStoresModifiedRequest ==
    [][\A p \in Procs :
          (/\ SaveReturns(p)
           /\ handler[p] = "CaptureMode"
           /\ HasEvent(p, "middleware")
           /\ Len(matchingPairs') = Len(matchingPairs) + 1)
          => /\ matchingPairs'[Len(matchingPairs')] =
                   [RequestMatcher |-> SavedMatcher(Rewritten(p)),
                    Response |-> Forwarded(Rewritten(p))]
             /\ matchingPairs'[Len(matchingPairs')].Response.Body # "CHANGED"]_vars

\* C33 witness: a capture request for rA with the middleware set has returned
\* and the last pair of the store is the pair of the rewritten request and the
\* 201 the upstream gives to it.
C33_Witness ==
    \E p \in Procs :
        /\ pc[p] = "done"
        /\ handler[p] = "CaptureMode"
        /\ req[p] = "rA"
        /\ HasEvent(p, "middleware")
        /\ matchingPairs # <<>>
        /\ matchingPairs[Len(matchingPairs)].RequestMatcher = SavedMatcher(ModifiedRequest)
        /\ matchingPairs[Len(matchingPairs)].Response.Status = 201
        /\ matchingPairs[Len(matchingPairs)].Response.Body = "b2"

(* ---------------------------- properties: sequenced groups ------------ *)

\* the store holds two pairs of one request followed by two pairs of the
\* other, each group numbered 1, 2 by AddPairInSequence
TwoGroups ==
    /\ Len(matchingPairs) = 4
    /\ matchingPairs[1].RequestMatcher.Fields = matchingPairs[2].RequestMatcher.Fields
    /\ matchingPairs[3].RequestMatcher.Fields = matchingPairs[4].RequestMatcher.Fields
    /\ matchingPairs[1].RequestMatcher.Fields # matchingPairs[3].RequestMatcher.Fields
    /\ Numbered(matchingPairs, {1, 2})
    /\ Numbered(matchingPairs, {3, 4})

\* C34: with two sequenced groups in the store, the lookup of a request of
\* the first group leaves the pair that the matcher selects for the request of the
\* second group as it was.
C34_GroupsIndependent ==
    [][(/\ TwoGroups
        /\ last'.op = "GetResponse"
        /\ last'.req = matchingPairs[1].RequestMatcher.Fields.of)
       => MatchIndex(matchingPairs', matchingPairs[3].RequestMatcher.Fields.of, state')
             = MatchIndex(matchingPairs, matchingPairs[3].RequestMatcher.Fields.of, state)]_vars

(* ---------------------------- properties: maps by address ------------- *)

\* the sequence value the stored pair i requires
StoredSequence(i) == Get(Deref(heap, refPairs[i].RequiresState), "sequence")

\* C35: a stored pair shares no map with the caller's pair or another stored pair:
\* once a stored pair requires a sequence value, no later AddPairInSequence and no
\* write of the caller to its own pair changes that value
C35_StoredPairsIndependent ==
    [][\A i \in 1..Len(refPairs) :
          StoredSequence(i) # "" => StoredSequence(i)' = StoredSequence(i)]_vars

(* ---------------------------- properties: authentication -------------- *)

\* C36: with authentication on, the protected handler runs only for a request whose
\* token parses, is signed with HMAC, is valid and was not logged out, whether or not
\* the lookup in the blacklist fails, and a request it does not run for gets 401;
\* with authentication off the handler always runs
C36_AuthenticationGate ==
    call.fn = "RequireTokenAuthentication"
    => /\ call.enabled
          => /\ call.out.next => /\ call.request.kind = "good"
                                 /\ call.request.Authorization \notin call.invalidated
             /\ ~call.out.next => call.out.status = 401
       /\ ~call.enabled => call.out.next

(* ---------------------------- properties: BoltAuth -------------------- *)

\* C37: every call of BoltAuth.Delete returns, and when it has returned the key is
\* not in the bucket
C37_DeleteTerminates ==
    \A key \in BoltKeys :
        (del.pc = "running" /\ del.key = key)
            ~> (del.pc = "returned" /\ del.key = key
                /\ ~\E e \in bucket : e[1] = key)

(* ---------------------------- properties: ImportPayloads -------------- *)

\* the positions of the payloads that encode and whose request has the key
EncodedAt(payloads, key) ==
    {i \in 1..Len(payloads) : payloads[i].encodes /\ Hash(payloads[i].Request) = key}

\* the entry the last payload at the positions leaves under the key
LastEntry(payloads, key, at) ==
    LET i == CHOOSE j \in at : \A k \in at : k <= j
    IN  [ID |-> key, Request |-> payloads[i].Request, Body |-> payloads[i].Body]

\* C38: an empty import returns the error and leaves the cache as it was; any other
\* import returns nil, its counts of successes and failures are those of the payloads
\* that encode and that do not, and the cache holds, under the hash of each request
\* some encoding payload has, the last such payload with its ID set to that hash,
\* and every other entry as before
C38_ImportPayloads ==
    call.fn = "ImportPayloads"
    => LET payloads == call.payloads
           encoding == {i \in 1..Len(payloads) : payloads[i].encodes}
           keys == {Hash(payloads[i].Request) : i \in encoding}
       IN  IF payloads = <<>>
           THEN /\ call.out.err = "Bad request. Nothing to import!"
                /\ call.out.cache = call.cache
           ELSE /\ call.out.err = "nil"
                /\ call.out.success = Cardinality(encoding)
                /\ call.out.failed = Len(payloads) - Cardinality(encoding)
                /\ call.out.cache
                      = {e \in call.cache : e[1] \notin keys}
                        \cup {<<key, LastEntry(payloads, key, EncodedAt(payloads, key))>> :
                                 key \in keys}

\* an import that fails for one payload and stores two payloads of one request over
\* an entry the cache held
C38_Witness ==
    /\ call.fn = "ImportPayloads"
    /\ Len(call.payloads) = 3
    /\ call.out.failed = 1
    /\ call.out.success = 2
    /\ call.cache # {}
    /\ Cardinality(call.out.cache) = 1
    /\ \E e \in call.out.cache : e[2].Body = "b2"

(* ---------------------------- properties: hoverctl start and stop ----- *)

\* the processes a command spawned
Spawned == call.out.running \ call.procs

\* C39: start spawns a process only when there is no PID file, and then the file
\* holds the decimal digits of the id of that process; start with a PID file spawns
\* nothing and leaves the file as it is; stop removes the PID file exactly when the
\* recorded process was killed; at any time the PID file, if there is one, holds the
\* id of a spawned process and no other spawned process runs
C39_PidFileLifecycle ==
    /\ call.fn = "start"
       => /\ Spawned # {}
             => /\ ~call.file.exists
                /\ \E pid \in 1..MaxSpawned :
                      /\ Spawned = {pid}
                      /\ call.out.pidFile = [exists |-> TRUE, content |-> DecimalStrings[pid]]
          /\ call.file.exists => Spawned = {} /\ call.out.pidFile = call.file
    /\ call.fn = "stop"
       => LET killed == call.procs \ call.out.running
          IN  /\ (call.file.exists /\ ~call.out.pidFile.exists) <=> killed # {}
              /\ killed # {} => killed = {Atoi(call.file.content)}
              /\ killed = {} => call.out.pidFile = call.file
    /\ IF pidFile.exists
       THEN \E pid \in 1..(nextPid - 1) :
               pidFile.content = DecimalStrings[pid] /\ running \subseteq {pid}
       ELSE running = {}

\* the second process hoverctl started has been killed by stop and its PID file is
\* removed
C39_Witness ==
    /\ call.fn = "stop"
    /\ call.out.out = "Hoverfly has been killed"
    /\ call.file.content = "2"
    /\ ~pidFile.exists

(* ---------------------------- properties: the upstream HTTP client ---- *)

\* C40: the client verifies upstream certificates when the TLS-verification flag is
\* true and skips the verification only when it is false: with the flag true an
\* https upstream whose certificate is not trusted gets no request through
C40_TLSVerificationRespected ==
    (call.fn = "GetDefaultHoverflyHTTPClient" /\ ~call.client.fatal)
    => /\ call.client.InsecureSkipVerify => ~call.tlsVerification
       /\ (call.tlsVerification /\ call.scheme = "https"
           /\ call.certificate # "trusted") => call.out = 0
====
